---- MODULE Spec2Model ----
(***************************************************************************)
(* Client-side optimistic cache and reconciliation engine of the file      *)
(* picker: sync state, delete queue, optimistic delete registry, root and  *)
(* folder status caches, status resolver, KB lifecycle orchestrator,       *)
(* status poller, folder tree and prefetch.                                *)
(*                                                                         *)
(* One step of the model is one run-to-completion task of the event loop   *)
(* (a UI handler, a network response, a timer) together with the render    *)
(* that follows it.  React effects that the render makes due run before    *)
(* the next task (EffectsDue).                                             *)
(***************************************************************************)
EXTENDS Integers, Sequences, FiniteSets, TLC

\* ------------------------------------------------------------------ bounds

\* Date.now() readings that are told apart: the clock of the model advances
\* when a KB is created, so this bounds the number of creates.
MaxClock == 2

\* API delete calls counted per call descriptor before the counter saturates.
MaxCalls == 2

\* speculative prefetch tasks alive at the same time (waiting for their timer
\* or for a response)
MaxPrefetch == 1

\* pollFolderStatus chains scheduled at the same time
MaxChains == 2

\* collapse timers pending when a delete with no active KB is still taken
MaxTimers == 1

\* ------------------------------------------------------- the drive listing

\* The drive the listing API serves: a.txt, docs/, docs/b.txt.
Res == {"f1", "d1", "f2"}

Name(r) ==
  CASE r = "f1" -> <<"a.txt">>
    [] r = "d1" -> <<"docs">>
    [] r = "f2" -> <<"docs", "b.txt">>

Type(r) == IF r = "d1" THEN "directory" ELSE "file"

\* position of a row in the flattened table (parent, then its children)
RowOrder(r) == CASE r = "f1" -> 1 [] r = "d1" -> 2 [] r = "f2" -> 3

Dirs == {r \in Res : Type(r) = "directory"}

\* ------------------------------------------------------------------ values

\* KnowledgeBase.id: `temp-${Date.now()}` or a server-assigned id; null is NoKb
TempKb(n) == [temp |-> TRUE, n |-> n]
RealKb(n) == [temp |-> FALSE, n |-> n]
NoKb == [temp |-> FALSE, n |-> 0]

\* FileItem.status values the backend reports for a file; "undef" is a missing
\* status and "absent" marks a resource that is not in a listing at all.
ServerStatus == {"indexed", "pending", "pending_delete", "error", "undef"}

\* a `{ data: FileItem[] }` listing: status per resource id
NoData == [r \in Res |-> "absent"]

VARIABLES
  now,            \* Date.now(): advances with every create (temp-${Date.now()})
  build,          \* which queue hook the mounted orchestrator drains with
  currentKB,      \* useKnowledgeBaseOperations: currentKB?.id
  storedKB,       \* localStorage: stackai_knowledge_base
  syncState,      \* ["sync-state"]: state, kbId
  queue,          \* ["delete-queue"].queue
  processing,     \* ["delete-queue"].processing
  registry,       \* ["optimistic-delete-registry"].entries: fileId -> kbId
  rootCache,      \* ["kb-resources", kbId] -> listing
  folderCache,    \* ["kb-file-status", kbId, folderPath] -> listing
  driveCache,     \* ["drive-files", folderId] -> listing with merged status
  expandedFolders,\* useFileTree: expandedFolders
  createPc,       \* createKBMutation: idle, onMutate, creating, syncing
  ctx,            \* createKBMutation context and variables
  drainPc,        \* processQueue: idle, inflight, delay
  drainSnap,      \* processQueue: the `queue` its closure iterates
  drainIdx,       \* processQueue: position of the loop in drainSnap
  drainKb,        \* processQueue(currentKbId)
  apiDeletes,     \* DELETE /knowledge-bases/{id}/resources calls issued
  deleteMutations,\* deleteFilesMutation: variables and status of its runs
  reloading,      \* window.location.reload() was called
  shouldPoll,     \* useKnowledgeBaseStatus: shouldPoll
  pollExpired,    \* Date.now() - pollingStartTime > MAX_POLL_DURATION
  togglePc,       \* toggleFolder per folder: idle, or kb with the kbId it closed over
  folderPolls,    \* scheduled pollFolderStatus(folderPath, folderId) chains
  collapseTimers, \* pending setTimeout(() => collapseAllFolders(), 100)
  prefetches,     \* usePrefetch: tasks started by startPrefetch
  resolved,       \* the last call of resolveFileStatus and what it returned
  dedup,          \* a call of deduplicateResourceIds: its arguments, its result
  marked,         \* the last call of markFileAsDeleted on its own
  merged,         \* the last call of updateCachedFilesWithStatus on its own
  notifying,      \* whether the failure notifications are followed
  rowSelection,   \* useFileSelection: rowSelection
  hasShownErrorToast, \* useKnowledgeBaseStatus: hasShownErrorToast
  errorToastShown,\* useFileTree: errorToastShown
  toasts,         \* toast.error calls since the page loaded, by scope
  backend         \* the server: status of the root resources of the KB it holds

vars == <<now, build, currentKB, storedKB, syncState, queue, processing,
          registry, rootCache, folderCache, driveCache, expandedFolders,
          createPc, ctx, drainPc, drainSnap, drainIdx, drainKb, apiDeletes,
          deleteMutations, reloading, shouldPoll, pollExpired, togglePc, folderPolls,
          collapseTimers, prefetches, resolved, dedup, marked, merged,
          notifying, rowSelection, hasShownErrorToast, errorToastShown, toasts,
          backend>>

\* the state of the failure notifications
toastVars == <<hasShownErrorToast, errorToastShown, toasts>>

\* the calls of pure functions that are recorded
callVars == <<resolved, dedup, marked, merged>>

\* ----------------------------------------------------------- query cache

\* queryClient.setQueryData(key, value)
SetQueryData(cache, key, value) ==
  [k \in DOMAIN cache \cup {key} |-> IF k = key THEN value ELSE cache[k]]

\* queryClient.removeQueries over the keys in `keys`
RemoveQueries(cache, keys) == [k \in DOMAIN cache \ keys |-> cache[k]]

\* a delete that leaves the listing of the root cache as it is
WithoutIds_Unfiltered(data, fileIds) == data

\* prev.data.filter(resource => !fileIds.includes(resource.id))
WithoutIds(data, fileIds) ==
  [r \in Res |-> IF r \in fileIds THEN "absent" ELSE data[r]]

\* ------------------------------------------------------------- sync state

updateSyncState(newState, kbId) ==
  [state |-> newState,
   kbId  |-> IF kbId # NoKb THEN kbId ELSE syncState.kbId]

\* isSyncPending with the comparison negated
isSyncPending_Negated == syncState.state # "pending"

isSyncPending == syncState.state = "pending"
isSyncCompleted == syncState.state = "synced"

\* ----------------------------------------------------------- delete queue

queueDeleteRequest(q, fileId, kbId, t) ==
  Append(q, [id           |-> <<fileId, t>>,
             fileId       |-> fileId,
             fileName     |-> Name(fileId),
             resourcePath |-> <<"/">> \o Name(fileId),
             kbId         |-> kbId,
             timestamp    |-> t])

removeFromQueue(q, requestId) == SelectSeq(q, LAMBDA req : req.id # requestId)

\* a rekey that rewrites the kbId of every request
updateQueueKBId_All(q, oldKbId, newKbId) ==
  [i \in 1..Len(q) |-> [q[i] EXCEPT !.kbId = newKbId]]

updateQueueKBId(q, oldKbId, newKbId) ==
  [i \in 1..Len(q) |->
     IF q[i].kbId = oldKbId THEN [q[i] EXCEPT !.kbId = newKbId] ELSE q[i]]

queueHasItems == Len(queue) > 0

\* --------------------------------------------- optimistic delete registry

\* a markFileAsDeleted that takes the entry out when it is already there
markFileAsDeleted_Toggle(reg, fileId, kbId) ==
  IF fileId \in DOMAIN reg THEN [r \in DOMAIN reg \ {fileId} |-> reg[r]]
  ELSE SetQueryData(reg, fileId, [fileId |-> fileId, kbId |-> kbId, locked |-> TRUE])

markFileAsDeleted(reg, fileId, kbId) ==
  SetQueryData(reg, fileId, [fileId |-> fileId, kbId |-> kbId, locked |-> TRUE])

\* -------------------------------------------------------- folder helpers

\* fileName.split("/"), pop(), "/" + join("/"): the segments but the last
getFolderPathFromFileName(fileName) == SubSeq(fileName, 1, Len(fileName) - 1)

\* an `undefined` folderPath argument
NoPath == <<"<undefined>">>

\* the listing GET /connections/resources?resource_id=folderId returns
DriveChildren(folderId) ==
  {r \in Res : /\ Len(Name(r)) = Len(Name(folderId)) + 1
               /\ SubSeq(Name(r), 1, Len(Name(folderId))) = Name(folderId)}

DriveListing(folderId) ==
  [r \in Res |-> IF r \in DriveChildren(folderId) THEN "undef" ELSE "absent"]

Level(r) == Len(Name(r)) - 1

\* getFolderContents: ids of the cached listing of a folder ([] when uncached)
getFolderContents(folderId) ==
  IF folderId \in DOMAIN driveCache
    THEN {r \in Res : driveCache[folderId][r] # "absent"}
    ELSE {}

\* ------------------------------------------------------- status resolver

ShowPendingAsIndexed_Verbatim(status) == status

\* resource.status === "pending" ? "indexed" : resource.status
ShowPendingAsIndexed(status) == IF status = "pending" THEN "indexed" ELSE status

\* resolveFileStatus with the root cache consulted before the registry
resolveFileStatus_CacheFirst(fileId, kbId, folderPath) ==
  IF /\ kbId # NoKb
     /\ kbId \in DOMAIN rootCache
     /\ rootCache[kbId][fileId] # "absent"
    THEN ShowPendingAsIndexed(rootCache[kbId][fileId])
  ELSE IF fileId \in DOMAIN registry THEN "-"
  ELSE IF /\ kbId # NoKb
          /\ folderPath # NoPath
          /\ <<kbId, folderPath>> \in DOMAIN folderCache
          /\ folderCache[<<kbId, folderPath>>][fileId] # "absent"
    THEN ShowPendingAsIndexed(folderCache[<<kbId, folderPath>>][fileId])
  ELSE "null"

\* resolveFileStatus with the folder status cache consulted before the root
\* status cache
resolveFileStatus_FolderFirst(fileId, kbId, folderPath) ==
  IF fileId \in DOMAIN registry THEN "-"
  ELSE IF /\ kbId # NoKb
          /\ folderPath # NoPath
          /\ <<kbId, folderPath>> \in DOMAIN folderCache
          /\ folderCache[<<kbId, folderPath>>][fileId] # "absent"
    THEN ShowPendingAsIndexed(folderCache[<<kbId, folderPath>>][fileId])
  ELSE IF /\ kbId # NoKb
          /\ kbId \in DOMAIN rootCache
          /\ rootCache[kbId][fileId] # "absent"
    THEN ShowPendingAsIndexed(rootCache[kbId][fileId])
  ELSE "null"

resolveFileStatus(fileId, kbId, folderPath) ==
  IF fileId \in DOMAIN registry THEN "-"
  ELSE IF /\ kbId # NoKb
          /\ kbId \in DOMAIN rootCache
          /\ rootCache[kbId][fileId] # "absent"
    THEN ShowPendingAsIndexed(rootCache[kbId][fileId])
  ELSE IF /\ kbId # NoKb
          /\ folderPath # NoPath
          /\ <<kbId, folderPath>> \in DOMAIN folderCache
          /\ folderCache[<<kbId, folderPath>>][fileId] # "absent"
    THEN ShowPendingAsIndexed(folderCache[<<kbId, folderPath>>][fileId])
  ELSE "null"

\* ------------------------------------------------------------- file tree

\* rows of the flattened tree: root rows, and children of expanded folders
Visible(r) ==
  \/ Level(r) = 0
  \/ \E d \in Dirs : /\ r \in DriveChildren(d)
                     /\ d \in expandedFolders
                     /\ d \in DOMAIN driveCache
                     /\ driveCache[d][r] # "absent"

\* useFileSelection: the folderPath handed to the resolver for a row
RowFolderPath(r) ==
  IF Level(r) > 0 THEN getFolderPathFromFileName(Name(r)) ELSE NoPath

\* a Create button that is never hidden
hasKB_Never == FALSE

hasKB == currentKB # NoKb

canSelectFile(r) ==
  IF ~hasKB THEN TRUE
  ELSE resolveFileStatus(r, currentKB, RowFolderPath(r)) = "indexed"

\* selectedResourceIds in row order
RECURSIVE InRowOrder(_)
InRowOrder(ids) ==
  IF ids = {} THEN <<>>
  ELSE LET first == CHOOSE r \in ids : \A o \in ids : RowOrder(r) <= RowOrder(o)
       IN <<first>> \o InRowOrder(ids \ {first})

\* getAllDescendantFileIds(parentFiles, allFiles)
RECURSIVE getAllDescendantFileIds(_, _)
getAllDescendantFileIds(parentFiles, allFiles) ==
  {f \in parentFiles : Type(f) = "file"}
    \cup UNION {getAllDescendantFileIds(DriveChildren(d) \cap allFiles, allFiles) :
                  d \in {p \in parentFiles : Type(p) = "directory"}}

\* first element of a listing
FirstRow(ids) == CHOOSE r \in ids : \A o \in ids : RowOrder(r) <= RowOrder(o)

\* setFolderContentsAsIndexed: the listing written under [kbId, folderPath]
IndexedListing(fileIds, files) ==
  [r \in Res |->
     IF r \in fileIds /\ (IF r \in files THEN Type(r) ELSE "file") = "file"
       THEN "indexed" ELSE "absent"]

\* ------------------------------------------------- resource deduplication

\* A drive with a nested folder, for deduplicateResourceIds: a.txt, docs/,
\* docs/b.txt, docs/sub/, docs/sub/c.txt.
SampleTree == {"fa", "dd", "fb", "ds", "fc"}

SampleName(id) ==
  CASE id = "fa" -> <<"a.txt">>
    [] id = "dd" -> <<"docs">>
    [] id = "fb" -> <<"docs", "b.txt">>
    [] id = "ds" -> <<"docs", "sub">>
    [] id = "fc" -> <<"docs", "sub", "c.txt">>

SampleType(id) == IF id \in {"dd", "ds"} THEN "directory" ELSE "file"

\* position of a row of the sample drive in the flattened table
SampleOrder(id) ==
  CASE id = "fa" -> 1 [] id = "dd" -> 2 [] id = "fb" -> 3 [] id = "ds" -> 4
    [] id = "fc" -> 5

\* selectedFiles.map(file => file.id): the selected rows in table order
RECURSIVE InSampleOrder(_)
InSampleOrder(ids) ==
  IF ids = {} THEN <<>>
  ELSE LET first == CHOOSE r \in ids : \A o \in ids : SampleOrder(r) <= SampleOrder(o)
       IN <<first>> \o InSampleOrder(ids \ {first})

\* filePath.startsWith(folderPath + "/") and no "/" in the rest of filePath
isDirectChildOf(filePath, folderPath) ==
  /\ Len(filePath) > Len(folderPath)
  /\ SubSeq(filePath, 1, Len(folderPath)) = folderPath
  /\ Len(filePath) - Len(folderPath) = 1

\* a deduplication that drops a file below a selected folder at any depth
deduplicateResourceIds_AnyDepth(selectedIds, files) ==
  IF Len(selectedIds) <= 1 THEN selectedIds
  ELSE LET selectedFolders ==
             {selectedIds[i] : i \in {j \in 1..Len(selectedIds) :
                /\ selectedIds[j] \in files
                /\ SampleType(selectedIds[j]) = "directory"}}
           Keep(id) ==
             \/ id \notin files
             \/ SampleType(id) = "directory"
             \/ ~\E folder \in selectedFolders :
                   /\ Len(SampleName(id)) > Len(SampleName(folder))
                   /\ SubSeq(SampleName(id), 1, Len(SampleName(folder)))
                        = SampleName(folder)
       IN IF selectedFolders = {} THEN selectedIds
          ELSE SelectSeq(selectedIds, Keep)

deduplicateResourceIds(selectedIds, files) ==
  IF Len(selectedIds) <= 1 THEN selectedIds
  ELSE LET selectedFolders ==
             {selectedIds[i] : i \in {j \in 1..Len(selectedIds) :
                /\ selectedIds[j] \in files
                /\ SampleType(selectedIds[j]) = "directory"}}
           Keep(id) ==
             \/ id \notin files
             \/ SampleType(id) = "directory"
             \/ ~\E folder \in selectedFolders :
                   isDirectChildOf(SampleName(id), SampleName(folder))
       IN IF selectedFolders = {} THEN selectedIds
          ELSE SelectSeq(selectedIds, Keep)

\* ------------------------------------------------------------ initial state

NoCtx == [temp |-> NoKb, previousKB |-> NoKb, resourceIds |-> {},
          files |-> {}, contents |-> <<>>, kb |-> NoKb, syncKbId |-> NoKb]

NoCalls == <<>>

IdleToggle == [pc |-> "idle", kbId |-> NoKb, toastShown |-> FALSE]

\* no toast.error call yet
NoToasts == [root |-> <<>>, folder |-> <<>>]

NoCall == [fileId |-> "", kbId |-> NoKb, folderPath |-> NoPath, status |-> ""]

\* markFileAsDeleted has not been called on its own
NoMark == [fileId |-> "", kbId |-> NoKb, wasMarked |-> FALSE]

\* updateCachedFilesWithStatus has not been called on its own
NoMerge == [folderId |-> "", kbStatusMap |-> NoData, wrote |-> FALSE,
            refreshed |-> FALSE, changed |-> FALSE]

\* deduplicateResourceIds has not been called
NoDedup == [selectedIds |-> <<>>, files |-> {}, done |-> FALSE, result |-> <<>>]

\* the state of everything but the registry and the two status caches
InitRest ==
  /\ now = 0
  /\ build \in {"useDataManager", "useDeleteQueue"}
  /\ currentKB = NoKb
  /\ storedKB = NoKb
  /\ syncState = [state |-> "idle", kbId |-> NoKb]
  /\ queue = <<>>
  /\ processing = FALSE
  /\ driveCache = <<>>
  /\ expandedFolders = {}
  /\ createPc = "idle"
  /\ ctx = NoCtx
  /\ drainPc = "idle"
  /\ drainSnap = <<>>
  /\ drainIdx = 0
  /\ drainKb = NoKb
  /\ apiDeletes = NoCalls
  /\ deleteMutations = {}
  /\ reloading = FALSE
  /\ shouldPoll = TRUE
  /\ pollExpired = FALSE
  /\ togglePc = [d \in Dirs |-> IdleToggle]
  /\ folderPolls = {}
  /\ collapseTimers = 0
  /\ prefetches = {}
  /\ resolved = NoCall
  /\ marked = NoMark
  /\ merged = NoMerge
  /\ rowSelection = {}
  /\ hasShownErrorToast = FALSE
  /\ errorToastShown = {}
  /\ toasts = NoToasts
  /\ backend = NoData

Init ==
  /\ InitRest
  /\ notifying = FALSE
  /\ dedup = NoDedup
  /\ registry = <<>>
  /\ rootCache = <<>>
  /\ folderCache = <<>>

\* -------------------------------------------------------------- scheduling

\* the request at position i of q is one processQueue would execute: the loop
\* of useDeleteQueue skips a request whose kbId is not currentKbId, the loop of
\* useKnowledgeBaseOperations executes every request
Executes(q, i, kbId) == build = "useDeleteQueue" => q[i].kbId = kbId

\* a queue effect that does not look at the processing flag
QueueEffectDue_IgnoresProcessing ==
  /\ isSyncCompleted /\ queueHasItems /\ hasKB
  /\ \E i \in 1..Len(queue) : Executes(queue, i, currentKB)

\* the queue effect of the orchestrator is due, and the processQueue it starts
\* gets past its guard and calls the API (a run that skips every request sets
\* processing and clears it in one task and leaves every store as it was)
QueueEffectDue ==
  /\ isSyncCompleted /\ queueHasItems /\ ~processing /\ hasKB
  /\ \E i \in 1..Len(queue) : Executes(queue, i, currentKB)

\* the rows the auto-deselect effect of useFileSelection takes out: selected,
\* in files, and no longer resolved as indexed
Deselected ==
  {r \in rowSelection :
     Visible(r) /\ resolveFileStatus(r, currentKB, RowFolderPath(r)) # "indexed"}

\* the auto-deselect effect has something to take out
SelectionEffectDue == hasKB /\ Deselected # {}

EffectsDue == reloading \/ QueueEffectDue \/ SelectionEffectDue

drainVars == <<drainPc, drainSnap, drainIdx, drainKb>>
treeVars == <<driveCache, expandedFolders>>
folderVars == <<togglePc, folderPolls>>

\* --------------------------------------------- status poller: its effects

\* kbResources of useKnowledgeBaseStatus: the data of ["kb-resources", kbId]
KbResources(cache, kbId) ==
  IF kbId # NoKb /\ kbId \in DOMAIN cache
    THEN [has |-> TRUE, data |-> cache[kbId]]
    ELSE [has |-> FALSE, data |-> NoData]

\* a polling effect that counts only "pending" files as unsettled
StopsPolling_IgnoresPendingDelete(data, expired) ==
  LET resources == {r \in Res : data[r] # "absent"}
      files == {r \in resources : Type(r) = "file"}
  IN \/ expired
     \/ resources = {}
     \/ files = {}
     \/ ~(\E f \in files : data[f] = "pending")

\* the polling effect gets as far as one of its setShouldPoll(false)
StopsPolling(data, expired) ==
  LET resources == {r \in Res : data[r] # "absent"}
      files == {r \in resources : Type(r) = "file"}
      hasUnsettledFiles ==
        \E f \in files : data[f] = "pending" \/ data[f] = "pending_delete"
  IN \/ expired
     \/ resources = {}
     \/ files = {}
     \/ ~hasUnsettledFiles

\* The failure notifications feed into no other state of the picker; the
\* specifications that do not speak of them start with notifying = FALSE and
\* leave hasShownErrorToast, errorToastShown and toasts at their first values.

\* the number of toast.error calls counted for one scope
MaxToasts == 2

\* n more toast.error calls for scope k
Notify(log, k, n) ==
  IF n = 0 THEN log
  ELSE [x \in DOMAIN log \cup {k} |->
          LET sum == (IF x \in DOMAIN log THEN log[x] ELSE 0) + (IF x = k THEN n ELSE 0)
          IN IF sum > MaxToasts THEN MaxToasts ELSE sum]

\* the polling effect gets as far as its toast with errorFiles.length > 0
ReachesErrorToast(data, expired) ==
  LET resources == {r \in Res : data[r] # "absent"}
      files == {r \in resources : Type(r) = "file"}
  IN /\ ~expired
     /\ resources # {}
     /\ files # {}
     /\ \E f \in files : data[f] = "error"

\* hasShownErrorToast and the toast of useKnowledgeBaseStatus: the polling
\* effect runs with the flag of the render, the reset effect clears the flag
\* when kbId changed, and a cleared flag runs the polling effect once more
PollerToasts ==
  LET before == KbResources(rootCache, currentKB)
      after == KbResources(rootCache', currentKB')
      kbChanged == currentKB' # currentKB
      due == currentKB' # NoKb /\ after.has /\ ReachesErrorToast(after.data, pollExpired)
      first == (after # before \/ kbChanged) /\ due /\ ~hasShownErrorToast
      shown == hasShownErrorToast \/ first
      reset == kbChanged /\ currentKB' # NoKb
      second == reset /\ shown /\ due
  IN IF ~notifying THEN UNCHANGED toastVars
     ELSE /\ hasShownErrorToast' = IF reset THEN second ELSE shown
          /\ toasts' = [toasts EXCEPT !.root =
                          Notify(@, currentKB', (IF first THEN 1 ELSE 0) + (IF second THEN 1 ELSE 0))]
          /\ UNCHANGED errorToastShown

\* the two effects of useKnowledgeBaseStatus, in the render after the step:
\* the polling effect runs when kbResources or kbId changed, the reset effect
\* when kbId changed, and the reset effect's setShouldPoll(true) comes last
PollerEffects ==
  LET before == KbResources(rootCache, currentKB)
      after == KbResources(rootCache', currentKB')
  IN /\ PollerToasts
     /\ shouldPoll' =
            IF currentKB' # currentKB /\ currentKB' # NoKb THEN TRUE
            ELSE IF /\ (after # before \/ currentKB' # currentKB)
                    /\ currentKB' # NoKb
                    /\ after.has
                    /\ StopsPolling(after.data, pollExpired)
              THEN FALSE
            ELSE shouldPoll

\* removeQueries drops the queries of kbId: a fetch of prefetchQuery that is
\* in flight for one of them is cancelled and writes nothing
CancelRemoved(kbId) == {t \in prefetches : ~(t.pc = "kb" /\ t.kbId = kbId)}

\* ------------------------------------------------------------- API calls

DeleteCall(src, kbId, resourcePath, id) ==
  [src |-> src, kbId |-> kbId, resourcePath |-> resourcePath, id |-> id]

\* deleteKBResource(kbId, resourcePath) is called once more
Issue(calls, c) ==
  SetQueryData(calls, c,
    IF c \in DOMAIN calls
      THEN (IF calls[c] < MaxCalls THEN calls[c] + 1 ELSE MaxCalls)
      ELSE 1)

RECURSIVE IssueAll(_, _)
IssueAll(calls, cs) ==
  IF cs = {} THEN calls
  ELSE LET c == CHOOSE x \in cs : TRUE IN IssueAll(Issue(calls, c), cs \ {c})

\* ------------------------------------------------- create KB: onMutate

\* findAllFilesInSelectedFolders: the loop runs on through the selected folders
\* whose contents are cached and stops at the first one it has to fetch
RECURSIVE ResolveFolders(_)
ResolveFolders(c) ==
  LET todo == {d \in c.resourceIds \cap c.files : Type(d) = "directory"}
                \ DOMAIN c.contents
  IN IF todo = {} THEN c
     ELSE LET d == FirstRow(todo)
          IN IF getFolderContents(d) # {}
               THEN ResolveFolders(
                      [c EXCEPT !.contents = SetQueryData(@, d, getFolderContents(d))])
               ELSE c

AwaitedFolders(c) ==
  {d \in c.resourceIds \cap c.files : Type(d) = "directory"} \ DOMAIN c.contents

\* context.folderFiles
FolderFiles(c) ==
  {[folderId   |-> d,
    folderPath |-> getFolderPathFromFileName(Name(FirstRow(c.contents[d]))),
    fileIds    |-> getAllDescendantFileIds(c.contents[d], c.files)] :
     d \in {e \in DOMAIN c.contents :
              /\ c.contents[e] # {}
              /\ getAllDescendantFileIds(c.contents[e], c.files) # {}}}

RootFiles_FilesOnly(c) ==
  {id \in c.resourceIds \cap c.files : Type(id) = "file"}

\* rootFiles of onMutate
RootFiles(c) ==
  {id \in c.resourceIds \cap c.files :
     Type(id) = "file" \/ (Type(id) = "directory" /\ Level(id) = 0)}

\* steps 5 and 6 of onMutate, then mutationFn starts
OptimisticWrites(c) ==
  /\ rootCache' = SetQueryData(rootCache, c.temp,
                    [r \in Res |-> IF r \in RootFiles(c) THEN "indexed" ELSE "absent"])
  /\ folderCache' =
       [k \in DOMAIN folderCache
               \cup {<<c.temp, ff.folderPath>> : ff \in FolderFiles(c)} |->
          IF \E ff \in FolderFiles(c) : k = <<c.temp, ff.folderPath>>
            THEN LET ff == CHOOSE x \in FolderFiles(c) : k = <<c.temp, x.folderPath>>
                 IN IndexedListing(ff.fileIds, c.files)
            ELSE folderCache[k]]

OnMutateContinue(c) ==
  LET c2 == ResolveFolders(c)
  IN /\ ctx' = c2
     /\ IF AwaitedFolders(c2) = {}
          THEN /\ createPc' = "creating"
               /\ OptimisticWrites(c2)
          ELSE /\ createPc' = "onMutate"
               /\ UNCHANGED <<rootCache, folderCache>>

\* createKnowledgeBaseWithFiles(resourceIds, files) up to the first await
CreateStart(sel) ==
  /\ ~EffectsDue
  /\ ~hasKB
  /\ createPc = "idle"
  /\ sel # {}
  /\ \A r \in sel : Visible(r)
  /\ now < MaxClock
  /\ now' = now + 1
  /\ syncState' = updateSyncState("pending", TempKb(now'))
  /\ currentKB' = TempKb(now')
  /\ OnMutateContinue([temp |-> TempKb(now'), previousKB |-> currentKB,
                       resourceIds |-> sel, files |-> {r \in Res : Visible(r)},
                       contents |-> <<>>, kb |-> NoKb, syncKbId |-> NoKb])
  /\ collapseTimers' = collapseTimers + 1
  /\ UNCHANGED <<build, notifying, rowSelection, callVars, backend, deleteMutations, storedKB, queue, processing, registry, treeVars,
                 drainVars, apiDeletes, reloading, pollExpired, folderVars,
                 prefetches>>
  /\ PollerEffects

\* queryClient.fetchQuery(["drive-files", folderId]) of onMutate settles
CreateMutateFetched(ok) ==
  /\ ~EffectsDue
  /\ createPc = "onMutate"
  /\ LET d == FirstRow(AwaitedFolders(ctx))
         got == IF ok THEN DriveChildren(d) ELSE {}
     IN /\ driveCache' = IF ok /\ d \notin DOMAIN driveCache
                           THEN SetQueryData(driveCache, d, DriveListing(d))
                           ELSE driveCache
        /\ OnMutateContinue([ctx EXCEPT !.contents = SetQueryData(@, d, got)])
  /\ UNCHANGED <<now, build, notifying, rowSelection, callVars, backend, deleteMutations, currentKB, storedKB, syncState, queue, processing,
                 registry, expandedFolders, drainVars, apiDeletes, reloading,
                 pollExpired, folderVars, collapseTimers, prefetches>>
  /\ PollerEffects

\* ----------------------------------------- create KB: onSuccess, onError

TempFolderKeys(kbId) == {k \in DOMAIN folderCache : k[1] = kbId}

\* an onSuccess that persists the optimistic KB
onSuccess_StoresOptimisticKB ==
  LET temp == ctx.temp
      kb == ctx.kb
      moved == {ff.folderPath : ff \in FolderFiles(ctx)}
      root1 == IF temp \in DOMAIN rootCache
                 THEN SetQueryData(rootCache, kb, rootCache[temp])
                 ELSE rootCache
      movedKeys == {<<kb, fp>> : fp \in {m \in moved : <<temp, m>> \in DOMAIN folderCache}}
      folder1 == [k \in DOMAIN folderCache \cup movedKeys |->
                    IF k \in movedKeys THEN folderCache[<<temp, k[2]>>]
                    ELSE folderCache[k]]
  IN /\ syncState' = updateSyncState("synced", kb)
     /\ queue' = updateQueueKBId(queue, temp, kb)
     /\ currentKB' = kb
     /\ storedKB' = temp
     /\ rootCache' = RemoveQueries(root1, {temp})
     /\ folderCache' = RemoveQueries(folder1, {k \in DOMAIN folder1 : k[1] = temp})
     /\ prefetches' = CancelRemoved(temp)
     /\ createPc' = "idle"
     /\ ctx' = NoCtx

onSuccess ==
  LET temp == ctx.temp
      kb == ctx.kb
      moved == {ff.folderPath : ff \in FolderFiles(ctx)}
      root1 == IF temp \in DOMAIN rootCache
                 THEN SetQueryData(rootCache, kb, rootCache[temp])
                 ELSE rootCache
      movedKeys == {<<kb, fp>> : fp \in {m \in moved : <<temp, m>> \in DOMAIN folderCache}}
      folder1 == [k \in DOMAIN folderCache \cup movedKeys |->
                    IF k \in movedKeys THEN folderCache[<<temp, k[2]>>]
                    ELSE folderCache[k]]
  IN /\ syncState' = updateSyncState("synced", kb)
     /\ queue' = updateQueueKBId(queue, temp, kb)
     /\ currentKB' = kb
     /\ storedKB' = kb
     /\ rootCache' = RemoveQueries(root1, {temp})
     /\ folderCache' = RemoveQueries(folder1, {k \in DOMAIN folder1 : k[1] = temp})
     /\ prefetches' = CancelRemoved(temp)
     /\ createPc' = "idle"
     /\ ctx' = NoCtx

\* an onError that leaves the sync state as it is
onError_KeepsSyncState ==
  /\ currentKB' = ctx.previousKB
  /\ rootCache' = RemoveQueries(rootCache, {ctx.temp})
  /\ folderCache' = RemoveQueries(folderCache, TempFolderKeys(ctx.temp))
  /\ prefetches' = CancelRemoved(ctx.temp)
  /\ createPc' = "idle"
  /\ ctx' = NoCtx
  /\ UNCHANGED <<queue, storedKB, syncState>>

onError ==
  /\ syncState' = updateSyncState("idle", NoKb)
  /\ currentKB' = ctx.previousKB
  /\ rootCache' = RemoveQueries(rootCache, {ctx.temp})
  /\ folderCache' = RemoveQueries(folderCache, TempFolderKeys(ctx.temp))
  /\ prefetches' = CancelRemoved(ctx.temp)
  /\ createPc' = "idle"
  /\ ctx' = NoCtx
  /\ UNCHANGED <<queue, storedKB>>

\* syncKnowledgeBase(kb.id) called with the temporary id instead
SyncTarget_TempId(kb, temp) == temp

\* the kb_id mutationFn hands to syncKnowledgeBase
SyncTarget(kb, temp) == kb

\* createKnowledgeBase(...) of mutationFn settles: with the KB the server
\* created, and then syncKnowledgeBase is called, or with an error
CreateApiReturns(ok) ==
  /\ ~EffectsDue
  /\ createPc = "creating"
  /\ IF ok
       THEN /\ createPc' = "syncing"
            /\ LET kb == RealKb(ctx.temp.n)
               IN ctx' = [ctx EXCEPT !.kb = kb,
                                     !.syncKbId = SyncTarget(kb, ctx.temp)]
            /\ UNCHANGED <<currentKB, storedKB, syncState, queue, rootCache,
                           folderCache, prefetches>>
       ELSE onError
  /\ UNCHANGED <<now, build, notifying, rowSelection, callVars, backend, deleteMutations, processing, registry, treeVars, drainVars,
                 apiDeletes, reloading, pollExpired, folderVars, collapseTimers>>
  /\ PollerEffects

\* syncKnowledgeBase(kb.id) of mutationFn settles
SyncApiReturns(ok) ==
  /\ ~EffectsDue
  /\ createPc = "syncing"
  /\ IF ok THEN onSuccess ELSE onError
  /\ UNCHANGED <<now, build, notifying, rowSelection, callVars, backend, deleteMutations, processing, registry, treeVars, drainVars,
                 apiDeletes, reloading, pollExpired, folderVars, collapseTimers>>
  /\ PollerEffects

\* ------------------------------------------------------------ delete files

RECURSIVE MarkAll(_, _, _)
MarkAll(reg, ids, kbId) ==
  IF ids = {} THEN reg
  ELSE LET f == CHOOSE x \in ids : TRUE
       IN MarkAll(markFileAsDeleted(reg, f, kbId), ids \ {f}, kbId)

RECURSIVE QueueAll(_, _, _, _)
QueueAll(q, ids, kbId, t) ==
  IF ids = <<>> THEN q
  ELSE QueueAll(queueDeleteRequest(q, Head(ids), kbId, t), Tail(ids), kbId, t)

\* deleteSelectedFiles past its guard, with the mutationFn of
\* deleteFilesMutation when the sync is not pending
DeleteOptimistically(sel) ==
  /\ registry' = MarkAll(registry, sel, currentKB)
  /\ rootCache' = IF currentKB \in DOMAIN rootCache
                    THEN SetQueryData(rootCache, currentKB,
                                      WithoutIds(rootCache[currentKB], sel))
                    ELSE rootCache
  /\ IF isSyncPending
       THEN /\ queue' = QueueAll(queue, InRowOrder(sel), currentKB, now)
            /\ UNCHANGED <<apiDeletes, deleteMutations>>
       ELSE /\ apiDeletes' = IssueAll(apiDeletes,
                 {DeleteCall("direct", currentKB, <<"/">> \o Name(f), <<f, now>>) :
                    f \in sel})
            /\ deleteMutations' = deleteMutations \cup
                 {[fileIds |-> sel, kbId |-> currentKB, status |-> "pending"]}
            /\ UNCHANGED queue
  /\ collapseTimers' = collapseTimers + 1
  /\ UNCHANGED <<now, build, notifying, rowSelection, callVars, backend, currentKB, storedKB, syncState, processing, folderCache,
                 treeVars, createPc, ctx, drainVars, reloading, pollExpired,
                 folderVars, prefetches>>
  /\ PollerEffects

\* if (!currentKB?.id) return: the handler of onDeleteFiles only starts its
\* collapse timer
DeleteRejected ==
  /\ collapseTimers < MaxTimers
  /\ collapseTimers' = collapseTimers + 1
  /\ UNCHANGED <<now, build, notifying, rowSelection, callVars, toastVars, backend, deleteMutations, currentKB, storedKB,
                 syncState, queue, processing, registry, rootCache, folderCache,
                 treeVars, createPc, ctx, drainVars, apiDeletes, reloading,
                 shouldPoll, pollExpired, folderVars, prefetches>>

\* a deleteSelectedFiles without the check for an active KB
deleteSelectedFiles_NoGuard(sel) ==
  /\ ~EffectsDue
  /\ sel # {}
  /\ \A r \in sel : Visible(r) /\ canSelectFile(r)
  /\ DeleteOptimistically(sel)

\* onDeleteFiles(selectedIds): deleteSelectedFiles(selectedIds, files)
deleteSelectedFiles(sel) ==
  /\ ~EffectsDue
  /\ sel # {}
  /\ \A r \in sel : Visible(r) /\ canSelectFile(r)
  /\ IF hasKB THEN DeleteOptimistically(sel) ELSE DeleteRejected

\* an onSuccess that takes the deleted files out of the registry
DeleteApiReturns_Unregisters(m, ok) ==
  /\ ~EffectsDue
  /\ m \in deleteMutations /\ m.status = "pending"
  /\ deleteMutations' = (deleteMutations \ {m}) \cup
       {[m EXCEPT !.status = IF ok THEN "success" ELSE "error"]}
  /\ registry' = IF ok THEN [r \in DOMAIN registry \ m.fileIds |-> registry[r]]
                 ELSE registry
  /\ UNCHANGED <<now, build, notifying, rowSelection, callVars, toastVars, backend, currentKB, storedKB, syncState, queue,
                 processing, rootCache, folderCache, treeVars, createPc,
                 ctx, drainVars, apiDeletes, reloading, shouldPoll, pollExpired,
                 folderVars, collapseTimers, prefetches>>

\* the Promise.all of deleteFilesMutation settles and onSuccess or onError
\* runs: a toast either way, and no store of the picker is written
DeleteApiReturns(m, ok) ==
  /\ ~EffectsDue
  /\ m \in deleteMutations /\ m.status = "pending"
  /\ deleteMutations' = (deleteMutations \ {m}) \cup
       {[m EXCEPT !.status = IF ok THEN "success" ELSE "error"]}
  /\ UNCHANGED <<now, build, notifying, rowSelection, callVars, toastVars, backend, currentKB, storedKB, syncState, queue,
                 processing, registry, rootCache, folderCache, treeVars, createPc,
                 ctx, drainVars, apiDeletes, reloading, shouldPoll, pollExpired,
                 folderVars, collapseTimers, prefetches>>

\* ------------------------------------------------------------ queue drain

\* first position from j on whose request the loop executes
RECURSIVE NextIdx(_, _, _)
NextIdx(snap, j, kbId) ==
  IF j > Len(snap) \/ Executes(snap, j, kbId) THEN j
  ELSE NextIdx(snap, j + 1, kbId)

\* the loop of processQueue from position j on, up to its next await
DrainFrom(snap, j, kbId) ==
  LET k == NextIdx(snap, j, kbId)
  IN IF k > Len(snap)
       THEN /\ drainPc' = "idle"
            /\ drainSnap' = <<>>
            /\ drainIdx' = 0
            /\ drainKb' = NoKb
            /\ processing' = FALSE
            /\ UNCHANGED apiDeletes
       ELSE /\ drainPc' = "inflight"
            /\ drainSnap' = snap
            /\ drainIdx' = k
            /\ drainKb' = kbId
            /\ processing' = TRUE
            /\ apiDeletes' = Issue(apiDeletes,
                 DeleteCall("queue", snap[k].kbId, snap[k].resourcePath, snap[k].id))

\* the queue effect calls processQueue
DrainStart ==
  /\ ~reloading
  /\ QueueEffectDue
  /\ DrainFrom(queue, 1, currentKB)
  /\ UNCHANGED <<now, build, notifying, rowSelection, callVars, toastVars, backend, deleteMutations, currentKB, storedKB, syncState, queue, registry,
                 rootCache, folderCache, treeVars, createPc, ctx, reloading,
                 shouldPoll, pollExpired, folderVars, collapseTimers, prefetches>>

\* deleteKBResource(request.kbId, request.resourcePath) settles
DrainResponse(ok) ==
  /\ ~EffectsDue
  /\ drainPc = "inflight"
  /\ LET request == drainSnap[drainIdx]
         delay == IF build = "useDeleteQueue"
                    THEN drainIdx < Len(drainSnap)
                    ELSE ok /\ Len(drainSnap) > 1
     IN /\ queue' = IF build = "useDeleteQueue" /\ ~ok
                      THEN queue
                      ELSE removeFromQueue(queue, request.id)
        /\ IF delay
             THEN /\ drainPc' = "delay"
                  /\ UNCHANGED <<drainSnap, drainIdx, drainKb, processing, apiDeletes>>
             ELSE DrainFrom(drainSnap, drainIdx + 1, drainKb)
  /\ UNCHANGED <<now, build, notifying, rowSelection, callVars, toastVars, backend, deleteMutations, currentKB, storedKB, syncState, registry,
                 rootCache, folderCache, treeVars, createPc, ctx, reloading,
                 shouldPoll, pollExpired, folderVars, collapseTimers, prefetches>>

\* the 1000 ms pause between two requests is over
DrainDelayDone ==
  /\ ~EffectsDue
  /\ drainPc = "delay"
  /\ DrainFrom(drainSnap, drainIdx + 1, drainKb)
  /\ UNCHANGED <<now, build, notifying, rowSelection, callVars, toastVars, backend, deleteMutations, currentKB, storedKB, syncState, queue, registry,
                 rootCache, folderCache, treeVars, createPc, ctx, reloading,
                 shouldPoll, pollExpired, folderVars, collapseTimers, prefetches>>

\* ------------------------------------------------------------------ reset

\* a reset that leaves the registry alone
createNewKB_KeepsRegistry ==
  /\ ~EffectsDue
  /\ hasKB
  /\ syncState' = [state |-> "idle", kbId |-> NoKb]
  /\ queue' = <<>>
  /\ processing' = FALSE
  /\ storedKB' = NoKb
  /\ rootCache' = <<>>
  /\ folderCache' = <<>>
  /\ driveCache' = <<>>
  /\ currentKB' = NoKb
  /\ reloading' = TRUE
  /\ UNCHANGED <<now, registry, build, notifying, rowSelection, callVars, toastVars, backend, deleteMutations, expandedFolders, createPc, ctx, drainVars,
                 apiDeletes, shouldPoll, pollExpired, folderVars, collapseTimers,
                 prefetches>>

\* createNewKB: clearAllState, clearKBFromStorage, queryClient.clear(),
\* setCurrentKB(null), window.location.reload()
createNewKB ==
  /\ ~EffectsDue
  /\ hasKB
  /\ syncState' = [state |-> "idle", kbId |-> NoKb]
  /\ queue' = <<>>
  /\ processing' = FALSE
  /\ registry' = <<>>
  /\ storedKB' = NoKb
  /\ rootCache' = <<>>
  /\ folderCache' = <<>>
  /\ driveCache' = <<>>
  /\ currentKB' = NoKb
  /\ reloading' = TRUE
  /\ UNCHANGED <<now, build, notifying, rowSelection, callVars, toastVars, backend, deleteMutations, expandedFolders, createPc, ctx, drainVars,
                 apiDeletes, shouldPoll, pollExpired, folderVars, collapseTimers,
                 prefetches>>

\* the page loads again: every hook mounts with its initial state
PageLoad ==
  /\ reloading
  /\ reloading' = FALSE
  /\ currentKB' = storedKB
  /\ syncState' = [state |-> "idle", kbId |-> NoKb]
  /\ queue' = <<>>
  /\ processing' = FALSE
  /\ registry' = <<>>
  /\ rootCache' = <<>>
  /\ folderCache' = <<>>
  /\ driveCache' = <<>>
  /\ expandedFolders' = {}
  /\ createPc' = "idle"
  /\ ctx' = NoCtx
  /\ drainPc' = "idle"
  /\ drainSnap' = <<>>
  /\ drainIdx' = 0
  /\ drainKb' = NoKb
  /\ shouldPoll' = TRUE
  /\ pollExpired' = FALSE
  /\ togglePc' = [d \in Dirs |-> IdleToggle]
  /\ folderPolls' = {}
  /\ collapseTimers' = 0
  /\ prefetches' = {}
  /\ deleteMutations' = {}
  /\ hasShownErrorToast' = FALSE
  /\ errorToastShown' = {}
  /\ toasts' = NoToasts
  /\ rowSelection' = {}
  /\ UNCHANGED <<now, build, notifying, callVars, backend, storedKB, apiDeletes>>

\* ----------------------------------------------------------- the backend

\* what GET /knowledge-bases/{id}/resources?resource_path=path can answer: a
\* status for any of the resources directly under path (none for a directory)
KbListings(path) ==
  {l \in [Res -> ServerStatus \cup {"absent"}] :
     \A r \in Res :
       /\ getFolderPathFromFileName(Name(r)) # path => l[r] = "absent"
       /\ Type(r) = "directory" => l[r] \in {"undef", "absent"}}

RootPath == <<>>

\* ------------------------------------------------------------ status poller

\* a refetch of ["kb-resources", kbId] by useKnowledgeBaseStatus settles
PollRoot(resp) ==
  /\ ~EffectsDue
  /\ hasKB /\ ~currentKB.temp /\ shouldPoll
  /\ rootCache' = SetQueryData(rootCache, currentKB, resp)
  /\ UNCHANGED <<now, build, notifying, rowSelection, callVars, backend, deleteMutations, currentKB, storedKB, syncState, queue, processing,
                 registry, folderCache, treeVars, createPc, ctx, drainVars,
                 apiDeletes, reloading, pollExpired, folderVars, collapseTimers,
                 prefetches>>
  /\ PollerEffects

\* MAX_POLL_DURATION has gone by since the hook was mounted
TimePasses ==
  /\ ~EffectsDue
  /\ ~pollExpired
  /\ pollExpired' = TRUE
  /\ UNCHANGED <<now, build, notifying, rowSelection, callVars, toastVars, backend, deleteMutations, currentKB, storedKB, syncState, queue, processing,
                 registry, rootCache, folderCache, treeVars, createPc, ctx,
                 drainVars, apiDeletes, reloading, shouldPoll, folderVars,
                 collapseTimers, prefetches>>

\* statusMap of useKnowledgeBaseStatus
statusMap(r) ==
  LET kbResources == KbResources(rootCache, currentKB)
  IN IF ~kbResources.has \/ kbResources.data[r] = "absent" THEN "null"
     ELSE LET displayStatus == IF kbResources.data[r] = "undef" THEN "unknown"
                               ELSE kbResources.data[r]
          IN ShowPendingAsIndexed(displayStatus)

\* allFilesSettled of useKnowledgeBaseStatus
allFilesSettled ==
  LET kbResources == KbResources(rootCache, currentKB)
      files == {r \in Res : kbResources.data[r] # "absent" /\ Type(r) = "file"}
  IN IF ~kbResources.has THEN FALSE
     ELSE \A f \in files : kbResources.data[f] \in {"indexed", "error"}

\* ---------------------------------------------------------------- prefetch

\* cancelPrefetch(folderId): clearTimeout and abort
cancelPrefetch(folderId) ==
  {IF t.folderId = folderId /\ t.pc = "drive" THEN [t EXCEPT !.aborted = TRUE] ELSE t :
     t \in {u \in prefetches : ~(u.folderId = folderId /\ u.pc = "timer")}}

\* getFolderPath(files)
getFolderPath(ids) ==
  IF ids = {} THEN RootPath ELSE getFolderPathFromFileName(Name(FirstRow(ids)))

\* startPrefetch(folderId, 300): the row of a folder that is neither expanded
\* nor loading is hovered (handleRowMouseEnter)
startPrefetch(d) ==
  /\ ~EffectsDue
  /\ Visible(d) /\ Type(d) = "directory"
  /\ d \notin expandedFolders /\ togglePc[d].pc = "idle"
  /\ Cardinality(cancelPrefetch(d)) < MaxPrefetch
  /\ prefetches' = cancelPrefetch(d) \cup
       {[folderId |-> d, pc |-> "timer", kbId |-> currentKB, aborted |-> FALSE,
         folderPath |-> NoPath]}
  /\ UNCHANGED <<now, build, notifying, rowSelection, callVars, toastVars, backend, deleteMutations, currentKB, storedKB, syncState, queue, processing,
                 registry, rootCache, folderCache, treeVars, createPc, ctx,
                 drainVars, apiDeletes, reloading, shouldPoll, pollExpired,
                 folderVars, collapseTimers>>

\* stopPrefetch(folderId): the pointer leaves the row
stopPrefetch(d) ==
  /\ ~EffectsDue
  /\ cancelPrefetch(d) # prefetches
  /\ prefetches' = cancelPrefetch(d)
  /\ UNCHANGED <<now, build, notifying, rowSelection, callVars, toastVars, backend, deleteMutations, currentKB, storedKB, syncState, queue, processing,
                 registry, rootCache, folderCache, treeVars, createPc, ctx,
                 drainVars, apiDeletes, reloading, shouldPoll, pollExpired,
                 folderVars, collapseTimers>>

\* prefetchFolderContents from the drive listing on: the KB status part
PrefetchKbPart(t, dcache) ==
  LET contents == {r \in Res : dcache[t.folderId][r] # "absent"}
      folderPath == getFolderPath(contents)
  IN IF /\ t.kbId # NoKb
        /\ contents # {}
        /\ <<t.kbId, folderPath>> \notin DOMAIN folderCache
        /\ ~t.aborted
       THEN prefetches' = (prefetches \ {t}) \cup
              {[t EXCEPT !.pc = "kb", !.folderPath = folderPath]}
       ELSE prefetches' = prefetches \ {t}

\* the 300 ms timer of startPrefetch fires
PrefetchTimerFires(t) ==
  /\ ~EffectsDue
  /\ t \in prefetches /\ t.pc = "timer"
  /\ IF ~Visible(t.folderId) THEN prefetches' = prefetches \ {t}
     ELSE IF t.folderId \in DOMAIN driveCache THEN PrefetchKbPart(t, driveCache)
     ELSE prefetches' = (prefetches \ {t}) \cup {[t EXCEPT !.pc = "drive"]}
  /\ UNCHANGED <<now, build, notifying, rowSelection, callVars, toastVars, backend, deleteMutations, currentKB, storedKB, syncState, queue, processing,
                 registry, rootCache, folderCache, treeVars, createPc, ctx,
                 drainVars, apiDeletes, reloading, shouldPoll, pollExpired,
                 folderVars, collapseTimers>>

\* listResources(folderId) of the prefetch settles
PrefetchDriveReturns(t, ok) ==
  /\ ~EffectsDue
  /\ t \in prefetches /\ t.pc = "drive"
  /\ IF ok
       THEN /\ driveCache' = IF t.folderId \in DOMAIN driveCache THEN driveCache
                             ELSE SetQueryData(driveCache, t.folderId,
                                               DriveListing(t.folderId))
            /\ PrefetchKbPart(t, driveCache')
       ELSE /\ prefetches' = prefetches \ {t}
            /\ UNCHANGED driveCache
  /\ UNCHANGED <<now, build, notifying, rowSelection, callVars, toastVars, backend, deleteMutations, currentKB, storedKB, syncState, queue, processing,
                 registry, rootCache, folderCache, expandedFolders, createPc, ctx,
                 drainVars, apiDeletes, reloading, shouldPoll, pollExpired,
                 folderVars, collapseTimers>>

\* listKBResourcesSafe(kbId, folderPath) of the prefetch settles: with a
\* listing, or with null or an error
PrefetchKbReturns(t, ok, resp) ==
  /\ ~EffectsDue
  /\ t \in prefetches /\ t.pc = "kb"
  /\ resp \in KbListings(t.folderPath)
  /\ folderCache' = IF ok THEN SetQueryData(folderCache, <<t.kbId, t.folderPath>>, resp)
                    ELSE folderCache
  /\ prefetches' = prefetches \ {t}
  /\ UNCHANGED <<now, build, notifying, rowSelection, callVars, toastVars, backend, deleteMutations, currentKB, storedKB, syncState, queue, processing,
                 registry, rootCache, treeVars, createPc, ctx, drainVars,
                 apiDeletes, reloading, shouldPoll, pollExpired, folderVars,
                 collapseTimers>>

\* ------------------------------------------------------------- file tree

\* kbStatusMap of fetchKBStatusForFolder: resource.status || "unknown"
KbStatusMap(resp) ==
  [r \in Res |-> IF resp[r] = "undef" THEN "unknown" ELSE resp[r]]

\* updateCachedFilesWithStatus: status = kbStatusMap.get(file.id) || file.status
MergedListing(listing, kbStatusMap) ==
  [r \in Res |->
     IF listing[r] = "absent" THEN "absent"
     ELSE IF kbStatusMap[r] # "absent" THEN kbStatusMap[r]
     ELSE listing[r]]

updateCachedFilesWithStatus(folderId, kbStatusMap) ==
  IF folderId \in DOMAIN driveCache
    THEN SetQueryData(driveCache, folderId,
                      MergedListing(driveCache[folderId], kbStatusMap))
    ELSE driveCache

\* hasPending of updateCachedFilesWithStatus
hasPending(cache, folderId) ==
  /\ folderId \in DOMAIN cache
  /\ \E r \in Res : Type(r) = "file" /\ cache[folderId][r] = "pending"

\* hasErrors of updateCachedFilesWithStatus
hasErrors(cache, folderId) ==
  /\ folderId \in DOMAIN cache
  /\ \E r \in Res : Type(r) = "file" /\ cache[folderId][r] = "error"

\* the folder toast, guarded by the errorToastShown the callback closed over
FolderToast(due, folderId) ==
  /\ errorToastShown' = IF due /\ notifying THEN errorToastShown \cup {folderId}
                        ELSE errorToastShown
  /\ toasts' = [toasts EXCEPT !.folder =
                  Notify(@, folderId, IF due /\ notifying THEN 1 ELSE 0)]
  /\ UNCHANGED hasShownErrorToast

\* chain numbers not in use
FreeChains == {n \in 1..MaxChains : \A c \in folderPolls : c.n # n}

\* toggleFolder(folderId) up to its second await; the drive listing is served
\* from the cache or fetched (ok: the fetch succeeds)
toggleFolder(d, ok) ==
  /\ ~EffectsDue
  /\ Visible(d) /\ Type(d) = "directory"
  /\ togglePc[d].pc = "idle"
  /\ ok \/ d \notin DOMAIN driveCache
  /\ IF d \in expandedFolders
       THEN /\ ok
            /\ expandedFolders' = expandedFolders \ {d}
            /\ UNCHANGED <<driveCache, togglePc, prefetches>>
       ELSE /\ prefetches' = cancelPrefetch(d)
            /\ IF ~ok THEN UNCHANGED <<driveCache, togglePc, expandedFolders>>
               ELSE /\ driveCache' = IF d \in DOMAIN driveCache THEN driveCache
                                     ELSE SetQueryData(driveCache, d, DriveListing(d))
                    /\ IF currentKB # NoKb /\ DriveChildren(d) # {}
                         THEN /\ togglePc' = [togglePc EXCEPT ![d] =
                                                [pc |-> "kb", kbId |-> currentKB,
                                                 toastShown |-> d \in errorToastShown]]
                              /\ UNCHANGED expandedFolders
                         ELSE /\ expandedFolders' = expandedFolders \cup {d}
                              /\ UNCHANGED togglePc
  /\ UNCHANGED <<now, build, notifying, rowSelection, callVars, toastVars, backend, deleteMutations, currentKB, storedKB, syncState, queue, processing,
                 registry, rootCache, folderCache, createPc, ctx, drainVars,
                 apiDeletes, reloading, shouldPoll, pollExpired, folderPolls,
                 collapseTimers>>

\* fetchKBStatusForFolder(folderPath) of toggleFolder settles (a null answer
\* or an error is the empty listing)
ToggleKbReturns(d, resp) ==
  /\ ~EffectsDue
  /\ togglePc[d].pc = "kb"
  /\ resp \in KbListings(getFolderPath(DriveChildren(d)))
  /\ driveCache' = updateCachedFilesWithStatus(d, KbStatusMap(resp))
  /\ IF hasPending(driveCache', d)
       THEN /\ FreeChains # {}
            /\ folderPolls' = folderPolls \cup
                 {[folderPath |-> getFolderPath(DriveChildren(d)), folderId |-> d,
                   kbId |-> togglePc[d].kbId, toastShown |-> togglePc[d].toastShown,
                   n |-> CHOOSE n \in FreeChains : \A m \in FreeChains : n <= m]}
       ELSE UNCHANGED folderPolls
  /\ FolderToast(hasErrors(driveCache', d) /\ ~togglePc[d].toastShown, d)
  /\ expandedFolders' = expandedFolders \cup {d}
  /\ togglePc' = [togglePc EXCEPT ![d] = IdleToggle]
  /\ UNCHANGED <<now, build, notifying, rowSelection, callVars, backend, deleteMutations, currentKB, storedKB, syncState, queue, processing,
                 registry, rootCache, folderCache, createPc, ctx, drainVars,
                 apiDeletes, reloading, shouldPoll, pollExpired, collapseTimers,
                 prefetches>>

\* pollFolderStatus(folderPath, folderId): its timer fires and its fetch settles
pollFolderStatus(c, resp) ==
  /\ ~EffectsDue
  /\ c \in folderPolls
  /\ resp \in KbListings(c.folderPath)
  /\ driveCache' = updateCachedFilesWithStatus(c.folderId, KbStatusMap(resp))
  /\ LET stillPending == \E r \in Res : resp[r] \in {"pending", "pending_delete"}
     IN /\ folderPolls' = IF stillPending THEN folderPolls ELSE folderPolls \ {c}
        /\ FolderToast(/\ ~stillPending
                       /\ hasErrors(driveCache', c.folderId)
                       /\ ~c.toastShown, c.folderId)
  /\ UNCHANGED <<now, build, notifying, rowSelection, callVars, backend, deleteMutations, currentKB, storedKB, syncState, queue, processing,
                 registry, rootCache, folderCache, expandedFolders, createPc, ctx,
                 drainVars, apiDeletes, reloading, shouldPoll, pollExpired,
                 togglePc, collapseTimers, prefetches>>

\* a pollFolderStatus whose fetch fails: listKBResourcesSafe answers null or
\* throws, and fetchKBStatusForFolder hands back the empty map
PollFolderFails(c) == pollFolderStatus(c, NoData)

\* collapseAllFolders, 100 ms after a create or a delete
collapseAllFolders ==
  /\ ~EffectsDue
  /\ collapseTimers > 0
  /\ collapseTimers' = collapseTimers - 1
  /\ expandedFolders' = {}
  /\ errorToastShown' = {}
  /\ UNCHANGED <<now, build, notifying, rowSelection, callVars, hasShownErrorToast, toasts, backend, deleteMutations, currentKB, storedKB, syncState, queue, processing,
                 registry, rootCache, folderCache, driveCache, createPc, ctx,
                 drainVars, apiDeletes, reloading, shouldPoll, pollExpired,
                 folderVars, prefetches>>

\* children of a row that expands into every folder, expanded or not
TreeChildren_Always(r) ==
  IF Type(r) = "directory" /\ r \in DOMAIN driveCache
    THEN {c \in Res : driveCache[r][c] # "absent"}
    ELSE {}

\* buildFileTree: the children of a row, from the cached listing of an
\* expanded folder
TreeChildren(r) ==
  IF Type(r) = "directory" /\ r \in expandedFolders /\ r \in DOMAIN driveCache
    THEN {c \in Res : driveCache[r][c] # "absent"}
    ELSE {}

\* flattenTree over buildFileTree(files, level): each row with its level,
\* then the rows of its children one level down, then its siblings
RECURSIVE flattenTree(_, _)
flattenTree(files, level) ==
  IF files = <<>> THEN <<>>
  ELSE <<[id |-> Head(files), level |-> level]>>
         \o flattenTree(InRowOrder(TreeChildren(Head(files))), level + 1)
         \o flattenTree(Tail(files), level)

\* flatFiles of useFileTree, over the root listing
flatFiles == flattenTree(InRowOrder({r \in Res : Len(Name(r)) = 1}), 0)

\* buildFileTree: the status of a row of the tree
finalStatus(r) ==
  IF Level(r) = 0 THEN statusMap(r)
  ELSE LET d == CHOOSE p \in Dirs : r \in DriveChildren(p)
       IN IF d \in DOMAIN driveCache /\ driveCache[d][r] # "absent"
            THEN driveCache[d][r] ELSE "undef"

\* ---------------------------------------------- the resolver on its own

\* the stores resolveFileStatus reads, drawn from bounded sets
SampleListings == [Res -> {"absent", "pending", "error"}]
SampleKb == RealKb(1)
SamplePath == <<"docs">>

InitResolver ==
  /\ InitRest
  /\ notifying = FALSE
  /\ dedup = NoDedup
  /\ build = "useDataManager"
  /\ registry \in {MarkAll(<<>>, ids, SampleKb) : ids \in SUBSET {"f1", "f2"}}
  /\ rootCache \in {<<>>} \cup {SetQueryData(<<>>, SampleKb, l) : l \in SampleListings}
  /\ folderCache \in {<<>>} \cup
       {SetQueryData(<<>>, <<SampleKb, SamplePath>>, l) : l \in SampleListings}

\* a caller asks for the status of a resource
Resolve(fileId, kbId, folderPath) ==
  /\ resolved' = [fileId |-> fileId, kbId |-> kbId, folderPath |-> folderPath,
                  status |-> resolveFileStatus(fileId, kbId, folderPath)]
  /\ UNCHANGED <<now, build, notifying, rowSelection, dedup, marked, merged, toastVars, backend, deleteMutations, currentKB, storedKB, syncState, queue, processing,
                 registry, rootCache, folderCache, treeVars, createPc, ctx,
                 drainVars, apiDeletes, reloading, shouldPoll, pollExpired,
                 folderVars, collapseTimers, prefetches>>

\* ------------------------------------- the deduplication on its own

\* the rows of the table: a row is there only below the row of its folder
SampleFiles ==
  {fs \in SUBSET SampleTree :
     \A id \in fs, d \in SampleTree :
       isDirectChildOf(SampleName(id), SampleName(d)) => d \in fs}

InitDedup ==
  /\ InitRest
  /\ notifying = FALSE
  /\ build = "useDataManager"
  /\ registry = <<>>
  /\ rootCache = <<>>
  /\ folderCache = <<>>
  /\ \E fs \in SampleFiles :
       dedup \in {[selectedIds |-> InSampleOrder(sel), files |-> fs,
                    done |-> FALSE, result |-> <<>>] : sel \in SUBSET fs}

\* mutationFn calls deduplicateResourceIds(resourceIds, files)
Deduplicate ==
  /\ ~dedup.done
  /\ dedup' = [dedup EXCEPT !.done = TRUE,
                 !.result = deduplicateResourceIds(dedup.selectedIds, dedup.files)]
  /\ UNCHANGED <<now, build, notifying, rowSelection, resolved, marked, merged, toastVars, backend, deleteMutations, currentKB, storedKB, syncState, queue,
                 processing, registry, rootCache, folderCache, treeVars, createPc,
                 ctx, drainVars, apiDeletes, reloading, shouldPoll, pollExpired,
                 folderVars, collapseTimers, prefetches>>

\* ------------------------------------------ the registry on its own

\* a caller marks a resource as deleted for a KB
MarkDeleted(fileId, kbId) ==
  /\ registry' = markFileAsDeleted(registry, fileId, kbId)
  /\ marked' = [fileId |-> fileId, kbId |-> kbId,
                wasMarked |-> fileId \in DOMAIN registry]
  /\ UNCHANGED <<now, build, notifying, rowSelection, resolved, dedup, merged, toastVars, backend, deleteMutations, currentKB, storedKB,
                 syncState, queue, processing, rootCache, folderCache, treeVars,
                 createPc, ctx, drainVars, apiDeletes, reloading, shouldPoll,
                 pollExpired, folderVars, collapseTimers, prefetches>>

\* --------------------------------- the merge of fetched statuses on its own

\* updateCachedFilesWithStatus(folderId, kbStatusMap) as ToggleKbReturns and
\* pollFolderStatus call it with what they fetched: after the early return for
\* a folder with no cached listing, setQueryData and setRefreshTrigger run
UpdateCached(folderId, resp) ==
  LET kbStatusMap == KbStatusMap(resp)
      cached == folderId \in DOMAIN driveCache
  IN /\ driveCache' = updateCachedFilesWithStatus(folderId, kbStatusMap)
     /\ merged' = [folderId |-> folderId, kbStatusMap |-> kbStatusMap,
                   wrote |-> cached, refreshed |-> cached,
                   changed |-> /\ cached
                               /\ MergedListing(driveCache[folderId], kbStatusMap)
                                    # driveCache[folderId]]
     /\ UNCHANGED <<now, build, notifying, rowSelection, resolved, dedup, marked, toastVars, backend, deleteMutations,
                    currentKB, storedKB, syncState, queue, processing, registry,
                    rootCache, folderCache, expandedFolders, createPc, ctx,
                    drainVars, apiDeletes, reloading, shouldPoll, pollExpired,
                    folderVars, collapseTimers, prefetches>>

\* ------------------------------------------------------------ specification

CreateActions ==
  \/ \E sel \in SUBSET Res : CreateStart(sel)
  \/ \E ok \in BOOLEAN : CreateMutateFetched(ok)
  \/ \E ok \in BOOLEAN : CreateApiReturns(ok)
  \/ \E ok \in BOOLEAN : SyncApiReturns(ok)

\* a create whose calls all succeed
CreateSucceeds ==
  \/ \E sel \in SUBSET Res : CreateStart(sel)
  \/ CreateMutateFetched(TRUE)
  \/ CreateApiReturns(TRUE)
  \/ SyncApiReturns(TRUE)

DeleteActions ==
  \/ \E sel \in SUBSET Res : deleteSelectedFiles(sel)
  \/ \E m \in deleteMutations, ok \in BOOLEAN : DeleteApiReturns(m, ok)
  \/ DrainStart
  \/ \E ok \in BOOLEAN : DrainResponse(ok)
  \/ DrainDelayDone

ResetActions == createNewKB \/ PageLoad

\* ------------------------------------------------------------- selection

\* a selection that is not checked again when it is read
selectedFiles_Unfiltered == {r \in rowSelection : Visible(r)}

\* selectedFiles of useFileSelection: the selected rows of files that can
\* still be selected
selectedFiles == {r \in rowSelection : Visible(r) /\ canSelectFile(r)}

\* fileRelationships.childrenMap with getAllDescendantIds: the rows of files
\* whose name starts with the name of the directory and a slash
getAllDescendantIds(d) ==
  {c \in Res : /\ Visible(c)
               /\ Len(Name(c)) > Len(Name(d))
               /\ SubSeq(Name(c), 1, Len(Name(d))) = Name(d)}

\* handleRowSelection(fileId, isSelected): the checkbox of a row is toggled
handleRowSelection(fileId, isSelected) ==
  /\ ~EffectsDue
  /\ Visible(fileId)
  /\ isSelected <=> fileId \notin rowSelection
  /\ isSelected => canSelectFile(fileId)
  /\ LET toggled == IF isSelected THEN rowSelection \cup {fileId}
                    ELSE rowSelection \ {fileId}
         descendantIds == getAllDescendantIds(fileId)
     IN rowSelection' =
          IF Type(fileId) = "directory"
            THEN (toggled \ descendantIds) \cup
                 {c \in descendantIds : isSelected /\ canSelectFile(c)}
            ELSE toggled
  /\ UNCHANGED <<now, build, notifying, callVars, toastVars, backend, deleteMutations,
                 currentKB, storedKB, syncState, queue, processing, registry,
                 rootCache, folderCache, treeVars, createPc, ctx, drainVars,
                 apiDeletes, reloading, shouldPoll, pollExpired, folderVars,
                 collapseTimers, prefetches>>

\* handleSelectAll(isSelected, visibleRows): the checkbox of the header
handleSelectAll(isSelected) ==
  /\ ~EffectsDue
  /\ rowSelection' = IF isSelected THEN {r \in Res : Visible(r) /\ canSelectFile(r)}
                     ELSE {}
  /\ UNCHANGED <<now, build, notifying, callVars, toastVars, backend, deleteMutations,
                 currentKB, storedKB, syncState, queue, processing, registry,
                 rootCache, folderCache, treeVars, createPc, ctx, drainVars,
                 apiDeletes, reloading, shouldPoll, pollExpired, folderVars,
                 collapseTimers, prefetches>>

\* the auto-deselect effect of useFileSelection, in KB mode
AutoDeselect ==
  /\ ~reloading
  /\ SelectionEffectDue
  /\ rowSelection' = rowSelection \ Deselected
  /\ UNCHANGED <<now, build, notifying, callVars, toastVars, backend, deleteMutations,
                 currentKB, storedKB, syncState, queue, processing, registry,
                 rootCache, folderCache, treeVars, createPc, ctx, drainVars,
                 apiDeletes, reloading, shouldPoll, pollExpired, folderVars,
                 collapseTimers, prefetches>>

\* the Create button: onCreateKB(selectedResourceIds, allFiles)
CreateSelection == CreateStart(selectedFiles)

\* the Delete button: onDeleteFiles(selectedResourceIds)
DeleteSelection == hasKB /\ deleteSelectedFiles(selectedFiles)

SelectionActions ==
  \/ \E fileId \in Res, isSelected \in BOOLEAN : handleRowSelection(fileId, isSelected)
  \/ \E isSelected \in BOOLEAN : handleSelectAll(isSelected)
  \/ AutoDeselect
  \/ CreateSelection
  \/ DeleteSelection

PollActions == (\E resp \in KbListings(RootPath) : PollRoot(resp)) \/ TimePasses

PrefetchActions ==
  \/ \E d \in Dirs : startPrefetch(d)
  \/ \E d \in Dirs : stopPrefetch(d)
  \/ \E t \in prefetches : PrefetchTimerFires(t)
  \/ \E t \in prefetches, ok \in BOOLEAN : PrefetchDriveReturns(t, ok)
  \/ \E t \in prefetches, ok \in BOOLEAN :
       \E resp \in KbListings(t.folderPath) : PrefetchKbReturns(t, ok, resp)

TreeActions ==
  \/ \E d \in Dirs, ok \in BOOLEAN : toggleFolder(d, ok)
  \/ \E d \in Dirs :
       \E resp \in KbListings(getFolderPath(DriveChildren(d))) : ToggleKbReturns(d, resp)
  \/ \E c \in folderPolls :
       \E resp \in KbListings(c.folderPath) : pollFolderStatus(c, resp)
  \/ collapseAllFolders

ResolverActions ==
  \E fileId \in Res, kbId \in {NoKb, SampleKb, RealKb(2)},
     folderPath \in {NoPath, SamplePath, RootPath} : Resolve(fileId, kbId, folderPath)

\* ------------------------------------------- the server indexing the KB

\* everything the picker holds
clientVars == <<now, build, currentKB, storedKB, syncState, queue, processing,
                registry, rootCache, folderCache, driveCache, expandedFolders,
                createPc, ctx, drainPc, drainSnap, drainIdx, drainKb, apiDeletes,
                deleteMutations, reloading, shouldPoll, pollExpired, togglePc,
                folderPolls, collapseTimers, prefetches, resolved, dedup, marked,
                merged, notifying, rowSelection, hasShownErrorToast, errorToastShown,
                toasts>>

\* what GET /knowledge-bases/{id}/resources?resource_path=path answers: the
\* resources directly under path; a file the server has taken and does not
\* list yet is not in it, and a KB the server does not hold has no listing
ServerListing(kbId, path) ==
  IF kbId = NoKb \/ kbId.temp THEN NoData
  ELSE [r \in Res |->
          IF getFolderPathFromFileName(Name(r)) # path \/ backend[r] = "unlisted"
            THEN "absent" ELSE backend[r]]

\* the resources of a KB made from connection_source_ids: the ids, what is
\* under a directory among them, and the directories above them
InKb(ids, r) ==
  \/ r \in ids
  \/ \E d \in Dirs : r \in DriveChildren(d) /\ d \in ids
  \/ r \in Dirs /\ DriveChildren(r) \cap ids # {}

\* POST /knowledge-bases took connection_source_ids: the server holds the
\* resources of the KB; it lists the directories and no file yet
ServerRegisters ==
  /\ createPc = "syncing"
  /\ backend = NoData
  /\ backend' = [r \in Res |->
                   IF ~InKb(ctx.resourceIds, r) THEN "absent"
                   ELSE IF Type(r) = "file" THEN "unlisted" ELSE "undef"]
  /\ UNCHANGED clientVars

\* the server starts to list a file of the KB, as pending
ServerLists(r) ==
  /\ backend[r] = "unlisted"
  /\ backend' = [backend EXCEPT ![r] = "pending"]
  /\ UNCHANGED clientVars

\* the server is done with a file of the KB: indexed or error
ServerSettles(r, status) ==
  /\ backend[r] = "pending"
  /\ backend' = [backend EXCEPT ![r] = status]
  /\ UNCHANGED clientVars

\* DELETE /knowledge-bases/{id}/resources reached the server: the file is
\* gone from the KB
ServerDeletes(r) ==
  /\ backend[r] # "absent"
  /\ \E m \in deleteMutations : m.status = "pending" /\ r \in m.fileIds
  /\ backend' = [backend EXCEPT ![r] = "absent"]
  /\ UNCHANGED clientVars

\* the delete calls of a mutation succeed, after the server dropped the files
DeleteAfterServer(m) ==
  /\ \A r \in m.fileIds : backend[r] = "absent"
  /\ DeleteApiReturns(m, TRUE)

\* a delete requested once the KB is synced
DeleteSynced(sel) == hasKB /\ ~isSyncPending /\ deleteSelectedFiles(sel)

\* syncKnowledgeBase(kb.id) succeeds, for the KB the server holds
SyncAfterServer == backend # NoData /\ SyncApiReturns(TRUE)

\* a refetch of ["kb-resources", kbId] answered from the server's state
PollServer == PollRoot(ServerListing(currentKB, RootPath))

\* fetchKBStatusForFolder of toggleFolder answered from the server's state
ToggleServerReturns(d) ==
  ToggleKbReturns(d, ServerListing(togglePc[d].kbId, getFolderPath(DriveChildren(d))))

\* a pollFolderStatus answered from the server's state
PollFolderServer(c) == pollFolderStatus(c, ServerListing(c.kbId, c.folderPath))

ServerActions ==
  \/ ServerRegisters
  \/ \E r \in Res : ServerLists(r)
  \/ \E r \in Res, status \in {"indexed", "error"} : ServerSettles(r, status)
  \/ \E r \in Res : ServerDeletes(r)

LiveNext ==
  \/ \E sel \in SUBSET Res : CreateStart(sel)
  \/ CreateMutateFetched(TRUE)
  \/ CreateApiReturns(TRUE)
  \/ SyncAfterServer
  \/ ServerActions
  \/ PollServer
  \/ TimePasses
  \/ \E sel \in SUBSET Res : DeleteSynced(sel)
  \/ \E m \in deleteMutations : DeleteAfterServer(m)
  \/ collapseAllFolders
  \/ \E d \in Dirs, ok \in BOOLEAN : toggleFolder(d, ok)
  \/ \E d \in Dirs : ToggleServerReturns(d)
  \/ \E c \in folderPolls : PollFolderServer(c)

\* every response arrives, every timer fires (the refetch interval while
\* polling is enabled, the timeout of a folder poll, the collapse timer) and
\* time passes
ClientFairness ==
  /\ WF_vars(CreateMutateFetched(TRUE))
  /\ WF_vars(CreateApiReturns(TRUE))
  /\ WF_vars(SyncAfterServer)
  /\ WF_vars(PollServer)
  /\ WF_vars(TimePasses)
  /\ WF_vars(\E m \in deleteMutations : DeleteAfterServer(m))
  /\ WF_vars(collapseAllFolders)
  /\ WF_vars(\E d \in Dirs : ToggleServerReturns(d))
  /\ WF_vars(\E c \in folderPolls : PollFolderServer(c))

\* and the server gets on with every file it holds
LiveFairness == ClientFairness /\ WF_vars(ServerActions)

Next ==
  \/ CreateActions
  \/ DeleteActions
  \/ ResetActions
  \/ PollActions
  \/ PrefetchActions
  \/ TreeActions

\* the whole picker
Spec == Init /\ [][Next]_vars

\* the picker with the orchestrator that is mounted (useKnowledgeBaseOperations)
InitDataManager == Init /\ build = "useDataManager"

\* the same, with the failure notifications followed
InitNotifying ==
  /\ InitRest
  /\ build = "useDataManager"
  /\ notifying = TRUE
  /\ dedup = NoDedup
  /\ registry = <<>>
  /\ rootCache = <<>>
  /\ folderCache = <<>>

\* the orchestrator and the delete queue
SpecQueue == Init /\ [][CreateActions \/ DeleteActions \/ ResetActions]_vars

\* the orchestrator, the delete queue and the root status poller
SpecStatus ==
  Init /\ [][CreateActions \/ DeleteActions \/ ResetActions \/ PollActions]_vars

\* creating a KB while folders are prefetched
SpecPrefetch == InitDataManager /\ [][CreateActions \/ PrefetchActions]_vars

\* creating a KB, the root status poller and the folder tree
SpecPolling == InitDataManager /\ [][CreateActions \/ PollActions \/ TreeActions]_vars

\* a KB whose create succeeds, prefetch and the folder tree
SpecDisplay == InitDataManager /\ [][CreateSucceeds \/ PrefetchActions \/ TreeActions]_vars

\* a KB that is created and indexed by the server while the root is polled
SpecLive == InitDataManager /\ [][LiveNext]_vars /\ LiveFairness

\* the same with a server that may leave a file as it is for ever
SpecStuck == InitDataManager /\ [][LiveNext]_vars /\ ClientFairness

\* the status poller and the folder tree with their failure notifications
SpecToast ==
  InitNotifying /\ [][\/ CreateSucceeds
                      \/ TreeActions
                      \/ \E resp \in KbListings(RootPath) : PollRoot(resp)]_vars

\* creates, deletes and root polls from one page load to the next reset
SpecEpoch == Init /\ [][CreateActions \/ DeleteActions \/ PollActions]_vars

\* the selection with creates, deletes, root polls and expansions; folders are
\* expanded and collapsed, no folder is polled
SpecSelection ==
  InitDataManager /\ [][\/ SelectionActions
                        \/ CreateMutateFetched(TRUE)
                        \/ CreateApiReturns(TRUE)
                        \/ SyncApiReturns(TRUE)
                        \/ collapseAllFolders
                        \/ (\E d \in Dirs, ok \in BOOLEAN : toggleFolder(d, ok))
                        \/ (\E d \in Dirs :
                              \E resp \in KbListings(getFolderPath(DriveChildren(d))) :
                                ToggleKbReturns(d, resp))
                        \/ (\E resp \in KbListings(RootPath) : PollRoot(resp))]_vars

\* the folder tree across creates and resets
SpecTree ==
  InitDataManager /\ [][CreateSucceeds \/ TreeActions \/ ResetActions]_vars

\* resolveFileStatus applied to stores drawn from bounded sets
SpecResolver == InitResolver /\ [][ResolverActions]_vars

\* deduplicateResourceIds applied to selections drawn from bounded sets
SpecDedup == InitDedup /\ [][Deduplicate]_vars

RegistryActions ==
  \E fileId \in Res, kbId \in {TempKb(1), RealKb(1), TempKb(2), RealKb(2)} :
    MarkDeleted(fileId, kbId)

MergeActions ==
  \/ \E d \in Dirs, ok \in BOOLEAN : toggleFolder(d, ok)
  \/ \E d \in Dirs :
       \E resp \in KbListings(getFolderPath(DriveChildren(d))) : UpdateCached(d, resp)

\* folders loaded into the drive cache, and statuses merged into them again
\* and again
SpecMerge == Init /\ [][MergeActions]_vars

\* markFileAsDeleted applied again and again, from the empty registry on
SpecRegistry == InitDataManager /\ [][RegistryActions]_vars

\* ------------------------------------------------------------------ claims

\* every KB id and folder path a caller can hand to the resolver
AllKbIds == {NoKb} \cup {TempKb(n) : n \in 1..MaxClock} \cup {RealKb(n) : n \in 1..MaxClock}
AllPaths == {NoPath} \cup {getFolderPathFromFileName(Name(r)) : r \in Res}

DisplaysRemoved(r) ==
  \A kbId \in AllKbIds, folderPath \in AllPaths :
    resolveFileStatus(r, kbId, folderPath) = "-"

\* C1: once the id of a resource is in the optimistic delete registry, the
\* resolver answers "removed" for it in this state and in every later one,
\* whatever the status caches hold, and the id stays in the registry; only the
\* reset (createNewKB, which reloads the page) ends that.
C1_RegistryLocksDisplay ==
  [][\A r \in DOMAIN registry :
       /\ DisplaysRemoved(r)
       /\ \/ reloading'
          \/ r \in DOMAIN registry' /\ DisplaysRemoved(r)']_vars

\* C1 witness: a deleted resource is back in the root cache of the active KB
\* (a poll answered with it) and still resolves to "removed"
C1_Witness ==
  \E r \in DOMAIN registry :
    /\ hasKB /\ currentKB \in DOMAIN rootCache
    /\ rootCache[currentKB][r] \in {"indexed", "pending"}
    /\ resolveFileStatus(r, currentKB, RowFolderPath(r)) = "-"

\* the descriptor of the API call processQueue makes for a request
QueueCall(request) ==
  DeleteCall("queue", request.kbId, request.resourcePath, request.id)

\* C2: a delete requested while the sync is pending leads, once the sync state
\* is synced, to exactly one API delete call per queued request (here: never
\* more than one call for a request of the queue), and the queue empties.
C2_OneCallPerQueuedRequest ==
  \A c \in DOMAIN apiDeletes : c.src = "queue" => apiDeletes[c] = 1

RequestsFor(q, r) == Cardinality({i \in 1..Len(q) : q[i].fileId = r})

\* C3: while the sync state is pending no API delete call is issued; a delete
\* requested then makes each of its resources resolve to "removed" at once and
\* appends exactly one request for it to the queue; and the calls for queued
\* requests are issued only when the sync state is synced.
C3_PendingDeleteOnlyQueues ==
  [][/\ syncState.state = "pending" =>
          /\ apiDeletes' = apiDeletes
          /\ LET new == DOMAIN registry' \ DOMAIN registry
             IN new # {} =>
                  /\ Len(queue') = Len(queue) + Cardinality(new)
                  /\ SubSeq(queue', 1, Len(queue)) = queue
                  /\ \A r \in new :
                       /\ DisplaysRemoved(r)'
                       /\ RequestsFor(queue', r) = RequestsFor(queue, r) + 1
     /\ \A c \in DOMAIN apiDeletes' :
          (c.src = "queue" /\ (c \notin DOMAIN apiDeletes \/ apiDeletes'[c] # apiDeletes[c]))
            => syncState.state = "synced"]_vars

\* C3 witness: the sync is pending, a delete has been requested, its request
\* waits in the queue and no call has been made for it
C3_Witness ==
  /\ syncState.state = "pending"
  /\ queue # <<>>
  /\ \A i \in 1..Len(queue) :
       /\ queue[i].fileId \in DOMAIN registry
       /\ DisplaysRemoved(queue[i].fileId)
       /\ QueueCall(queue[i]) \notin DOMAIN apiDeletes

\* C4: the step in which a create succeeds leaves no root or folder status
\* cache entry under the temporary id, and every entry that was there under the
\* temporary id is under the real id with the same contents.
C4_MigrationKeepsEveryEntry ==
  [][(createPc = "syncing" /\ createPc' = "idle" /\ syncState'.state = "synced") =>
       LET temp == ctx.temp
           kb == currentKB'
       IN /\ temp \notin DOMAIN rootCache'
          /\ \A k \in DOMAIN folderCache' : k[1] # temp
          /\ temp \in DOMAIN rootCache =>
               kb \in DOMAIN rootCache' /\ rootCache'[kb] = rootCache[temp]
          /\ \A k \in DOMAIN folderCache :
               k[1] = temp =>
                 /\ <<kb, k[2]>> \in DOMAIN folderCache'
                 /\ folderCache'[<<kb, k[2]>>] = folderCache[k]]_vars

\* C5: the step in which the create call or the sync call fails leaves the
\* sync state idle with no KB bound to it, the active KB the one from before
\* the create, and no status cache entry under the temporary id.
C5_FailureRevertsEveryStore ==
  [][(createPc \in {"creating", "syncing"} /\ createPc' = "idle"
        /\ syncState'.state # "synced") =>
       /\ syncState' = [state |-> "idle", kbId |-> NoKb]
       /\ currentKB' = ctx.previousKB
       /\ ctx.temp \notin DOMAIN rootCache'
       /\ \A k \in DOMAIN folderCache' : k[1] # ctx.temp]_vars

\* C6: a drain executes the requests in the order of the queue, and a request
\* whose kbId is not the KB id the drain was started with is skipped: the
\* request a call is in flight for has the KB id of the drain, and every
\* request before it with that KB id has had its call.
C6_DrainFifoAndSkipsOtherKb ==
  drainPc = "inflight" =>
    /\ drainSnap[drainIdx].kbId = drainKb
    /\ \A i \in 1..(drainIdx - 1) :
         drainSnap[i].kbId = drainKb => QueueCall(drainSnap[i]) \in DOMAIN apiDeletes

\* C7: a request the drain has executed is removed from the queue whether its
\* call succeeded or failed: a request that is still queued and has had a call
\* is the one whose call is in flight.
C7_ExecutedRequestLeavesQueue ==
  \A i \in 1..Len(queue) :
    QueueCall(queue[i]) \in DOMAIN apiDeletes =>
      drainPc = "inflight" /\ drainSnap[drainIdx].id = queue[i].id

\* a listing has a file whose status is pending or pending_delete
Unsettled(data) ==
  \E f \in Res :
    Type(f) = "file" /\ (data[f] = "pending" \/ data[f] = "pending_delete")

\* the root listing of the active KB is there and is not the one of the state
\* before: the step is one the polling effect of the root scope runs after
RootResultArrives ==
  /\ currentKB' = currentKB /\ hasKB
  /\ KbResources(rootCache', currentKB).has
  /\ KbResources(rootCache', currentKB) # KbResources(rootCache, currentKB)

CachedPending(r) ==
  \/ /\ currentKB \in DOMAIN rootCache
     /\ rootCache[currentKB][r] = "pending"
  \/ /\ <<currentKB, getFolderPathFromFileName(Name(r))>> \in DOMAIN folderCache
     /\ folderCache[<<currentKB, getFolderPathFromFileName(Name(r))>>][r] = "pending"

\* C9: a file whose status in the root status cache or in a folder status
\* cache is pending is never displayed as pending, neither in a root row nor
\* in a row inside an expanded folder (the status FileStatusCell gets from
\* buildFileTree for a file that is not in the registry).
C9_PendingNeverDisplayed ==
  \A r \in Res :
    (hasKB /\ Type(r) = "file" /\ Visible(r) /\ r \notin DOMAIN registry
       /\ CachedPending(r))
      => finalStatus(r) # "pending"

\* the root status cache has an entry for the resource of the call
RootEntry(call) ==
  /\ call.kbId \in DOMAIN rootCache
  /\ rootCache[call.kbId][call.fileId] # "absent"

\* the folder status cache keyed by the KB id and folder path of the call has
\* an entry for the resource
FolderEntry(call) ==
  /\ <<call.kbId, call.folderPath>> \in DOMAIN folderCache
  /\ folderCache[<<call.kbId, call.folderPath>>][call.fileId] # "absent"

\* C10: for every resource id, KB id and folder path the resolver answers
\* "removed" ("-") if the id is in the registry; else the status of the root
\* status cache entry for the id if there is one, pending shown as indexed;
\* else the status of the entry in the folder status cache keyed by the KB id
\* and the folder path if there is one, pending shown as indexed; else "none"
\* (null).
C10_ResolverPrecedence ==
  resolved # NoCall =>
    LET inRegistry == resolved.fileId \in DOMAIN registry
        root == rootCache[resolved.kbId][resolved.fileId]
        folder == folderCache[<<resolved.kbId, resolved.folderPath>>][resolved.fileId]
    IN /\ inRegistry => resolved.status = "-"
       /\ (~inRegistry /\ RootEntry(resolved)) =>
            resolved.status = (IF root = "pending" THEN "indexed" ELSE root)
       /\ (~inRegistry /\ ~RootEntry(resolved) /\ FolderEntry(resolved)) =>
            resolved.status = (IF folder = "pending" THEN "indexed" ELSE folder)
       /\ (~inRegistry /\ ~RootEntry(resolved) /\ ~FolderEntry(resolved)) =>
            resolved.status = "null"

\* C10 witness: the resolver was asked for a resource that is in both status
\* caches with different statuses and not in the registry, and answered with
\* the root one, a pending shown as indexed
C10_Witness ==
  /\ resolved # NoCall
  /\ resolved.fileId \notin DOMAIN registry
  /\ RootEntry(resolved) /\ FolderEntry(resolved)
  /\ rootCache[resolved.kbId][resolved.fileId] = "pending"
  /\ folderCache[<<resolved.kbId, resolved.folderPath>>][resolved.fileId] = "error"
  /\ resolved.status = "indexed"

\* the folder a row of the sample drive lies directly in ("" for a root row)
SampleParent(id) ==
  CASE id = "fb" -> "dd" [] id = "ds" -> "dd" [] id = "fc" -> "ds" [] OTHER -> ""

\* the ids of a sequence
Ids(seq) == {seq[i] : i \in 1..Len(seq)}

\* C11: for a selection of more than one id, deduplicateResourceIds drops a
\* selected file exactly when the directory it lies directly in is selected
\* too, keeps every selected directory, and so keeps a file two or more
\* segments below a selected directory unless its direct parent is selected.
C11_DropsOnlyDirectChildren ==
  (dedup.done /\ Len(dedup.selectedIds) > 1) =>
    /\ Ids(dedup.result) \subseteq Ids(dedup.selectedIds)
    /\ \A id \in Ids(dedup.selectedIds) :
         /\ SampleType(id) = "directory" => id \in Ids(dedup.result)
         /\ SampleType(id) = "file" =>
              (id \notin Ids(dedup.result)
                 <=> SampleParent(id) \in Ids(dedup.selectedIds))

\* C11 witness: docs, docs/b.txt and docs/sub/c.txt were selected without
\* docs/sub: b.txt was dropped, c.txt and docs were kept
C11_Witness ==
  /\ dedup.done
  /\ {"dd", "fb", "fc"} \subseteq Ids(dedup.selectedIds)
  /\ "ds" \notin Ids(dedup.selectedIds)
  /\ "fb" \notin Ids(dedup.result)
  /\ {"dd", "fc"} \subseteq Ids(dedup.result)

\* the API delete calls issued by the step
IssuedCalls ==
  {c \in DOMAIN apiDeletes' :
     c \notin DOMAIN apiDeletes \/ apiDeletes'[c] # apiDeletes[c]}

\* C12: with an active KB and the sync state not pending, a delete request
\* makes each of its resources resolve to "removed" at once, leaves no entry
\* for it in the root status cache of the KB, and issues exactly one API delete
\* call for it (for the active KB and the path of the resource); no direct
\* call is ever issued a second time.
C12_DirectDeleteCallsOnce ==
  [][/\ (hasKB /\ syncState.state # "pending"
          /\ DOMAIN registry' \ DOMAIN registry # {}) =>
          \A r \in DOMAIN registry' \ DOMAIN registry :
            /\ DisplaysRemoved(r)'
            /\ currentKB \in DOMAIN rootCache' => rootCache'[currentKB][r] = "absent"
            /\ Cardinality({c \in IssuedCalls : c.id[1] = r}) = 1
            /\ \A c \in IssuedCalls :
                 c.id[1] = r =>
                   /\ c.src = "direct" /\ c.kbId = currentKB
                   /\ c.resourcePath = <<"/">> \o Name(r)
                   /\ apiDeletes'[c] = 1
     /\ \A c \in DOMAIN apiDeletes' : c.src = "direct" => apiDeletes'[c] = 1]_vars

\* C12 witness: the sync state is synced, a resource that was in the root
\* cache has been deleted directly: it is in the registry, gone from the root
\* cache, and one call has been made for it
C12_Witness ==
  /\ hasKB /\ syncState.state = "synced"
  /\ \E r \in DOMAIN registry :
       /\ DisplaysRemoved(r)
       /\ currentKB \in DOMAIN rootCache /\ rootCache[currentKB][r] = "absent"
       /\ \E c \in DOMAIN apiDeletes :
            c.src = "direct" /\ c.id[1] = r /\ c.kbId = currentKB /\ apiDeletes[c] = 1

\* the create-KB call of mutationFn goes out in this step
CreateCallIssued == createPc # "creating" /\ createPc' = "creating"

\* what a root row shows for r: the status buildFileTree puts on the row and
\* the answer of the resolver agree on "indexed"
RootRowIndexed(r) ==
  /\ finalStatus(r) = "indexed"
  /\ resolveFileStatus(r, currentKB, NoPath) = "indexed"

\* C13: when a KB is created from a non-empty selection, the optimistic KB
\* with the temporary id is the active KB from the first step of the create
\* on (until the reset reloads the page), and in the state in which the create-KB call goes out (so before any
\* response to it) every selected root-level item that has no entry in the
\* optimistic delete registry displays indexed.
C13_OptimisticBeforeResponse ==
  [][/\ (createPc' \in {"onMutate", "creating"} /\ ~reloading') =>
          currentKB' = ctx'.temp /\ currentKB'.temp /\ ctx'.resourceIds # {}
     /\ CreateCallIssued =>
          \A r \in ctx'.resourceIds :
            (Level(r) = 0 /\ r \notin DOMAIN registry') => RootRowIndexed(r)']_vars

\* C13 witness: the create-KB call is in flight for a selection of a root
\* file and a root folder, both displayed as indexed under the temporary id
C13_Witness ==
  /\ createPc = "creating" /\ currentKB = ctx.temp /\ currentKB.temp
  /\ \E f, d \in ctx.resourceIds :
       /\ Type(f) = "file" /\ Type(d) = "directory"
       /\ Level(f) = 0 /\ Level(d) = 0
       /\ RootRowIndexed(f) /\ RootRowIndexed(d)

\* C13 as stated: every selected root-level item displays indexed when the
\* create-KB call goes out, whether or not the registry holds its id
C13_EverySelectedRootItemIndexed ==
  [][CreateCallIssued =>
       \A r \in ctx'.resourceIds : Level(r) = 0 => RootRowIndexed(r)']_vars

\* root polling of the active KB is off after the ceiling while the root
\* listing still holds file f as pending, and the user has not deleted f
CeilingStopped(f) ==
  /\ hasKB /\ ~shouldPoll /\ pollExpired
  /\ KbResources(rootCache, currentKB).has
  /\ Type(f) = "file" /\ Level(f) = 0
  /\ rootCache[currentKB][f] = "pending"
  /\ f \notin DOMAIN registry

\* C14: when root polling has been stopped by the ceiling on the total
\* polling duration while a file is still pending, the file displays indexed
\* (not pending, not removed), and after every later step it is still pending
\* in the listing, polling is still off and it still displays indexed, until
\* the user deletes the file or resets the KB.
C14_CeilingKeepsIndexed ==
  [][\A f \in Res :
       CeilingStopped(f) =>
         /\ RootRowIndexed(f)
         /\ \/ reloading'
            \/ f \in DOMAIN registry'
            \/ CeilingStopped(f)' /\ RootRowIndexed(f)']_vars

\* C14 witness: the ceiling was reached with a root file pending, polling is
\* off and the row of the file shows indexed
C14_Witness ==
  \E f \in Res :
    /\ CeilingStopped(f) /\ ~currentKB.temp /\ createPc = "idle"
    /\ statusMap(f) = "indexed"
    /\ resolveFileStatus(f, currentKB, RowFolderPath(f)) = "indexed"

\* the listKBResourcesSafe(kbId, folderPath) calls that are in flight: the
\* one of a prefetch and the one of toggleFolder's fetchKBStatusForFolder
StatusFetchesInFlight ==
  {[by |-> "prefetchFolderContents", folderId |-> t.folderId, kbId |-> t.kbId] :
     t \in {u \in prefetches : u.pc = "kb"}}
  \cup {[by |-> "toggleFolder", folderId |-> d, kbId |-> togglePc[d].kbId] :
          d \in {e \in Dirs : togglePc[e].pc = "kb"}}

\* C15: no KB status fetch is issued while the id of the active KB is a
\* temporary id: a step that puts a status fetch for a folder path in flight
\* is taken with a real id active, no folder poll chain runs for the active
\* temporary id, and root polling is off (PollRoot is the root fetch and is
\* enabled only when shouldEnablePolling holds).
C15_NoStatusFetchUnderTempId ==
  [][/\ StatusFetchesInFlight' \ StatusFetchesInFlight # {} => ~currentKB.temp
     /\ \A c \in folderPolls' : ~(currentKB'.temp /\ c.kbId = currentKB')
     /\ (ENABLED (\E resp \in KbListings(RootPath) : PollRoot(resp))) => ~currentKB.temp]_vars

\* the queue-originated deleteKBResource calls issued by the step
QueueCallsIssued == {c \in IssuedCalls : c.src = "queue"}

\* C16: at most one queue-originated API delete call is in flight at any
\* time: a drain starts only while no drain is running (the processing flag
\* stays set from the start of a drain to its end, and the queue effect is
\* never due in between), a step issues at most one queue call, and while a
\* call is in flight the only step that issues one is the step in which that
\* call completes and the loop moves on to a later request.
C16_OneQueueCallInFlight ==
  [][/\ (drainPc # "idle" /\ ~reloading) => (processing /\ ~QueueEffectDue)
     /\ (~processing /\ processing') => (drainPc = "idle" /\ drainPc' = "inflight")
     /\ QueueCallsIssued # {} =>
          /\ drainPc' = "inflight"
          /\ drainPc = "inflight" => (drainSnap' = drainSnap /\ drainIdx' > drainIdx)
          /\ Cardinality(QueueCallsIssued) = 1
          /\ \A c \in QueueCallsIssued :
               /\ c.id = drainSnap'[drainIdx'].id
               /\ c \notin DOMAIN apiDeletes => apiDeletes'[c] = 1
               /\ c \in DOMAIN apiDeletes => apiDeletes'[c] = apiDeletes[c] + 1]_vars

\* C16 witness: the second request of a drain of two is in flight, after the
\* first call completed, and the queue still holds it
C16_Witness ==
  /\ drainPc = "inflight" /\ processing /\ ~reloading
  /\ Len(drainSnap) = 2 /\ drainIdx = 2
  /\ \E c \in DOMAIN apiDeletes : c.src = "queue" /\ c.id = drainSnap[1].id
  /\ \E c \in DOMAIN apiDeletes : c.src = "queue" /\ c.id = drainSnap[2].id
  /\ \E i \in 1..Len(queue) : queue[i].id = drainSnap[2].id

CreateFailed ==
  /\ createPc' = "idle" /\ syncState'.state = "idle"
  /\ currentKB' = ctx.previousKB /\ storedKB' = storedKB
  /\ ctx.temp \notin DOMAIN rootCache'

\* C18: the sync call is issued only in the step in which the create-KB call
\* returned successfully, and for the id of the KB that call returned; when
\* the create-KB call fails no sync call is issued; and a failure of either
\* call makes the whole create fail (onError), while the create succeeds only
\* when the sync call succeeded, for the KB the create-KB call returned.
C18_SyncAfterCreate ==
  [][/\ (createPc # "syncing" /\ createPc' = "syncing") =>
          /\ createPc = "creating"
          /\ ~ctx'.kb.temp /\ ctx'.kb # NoKb
          /\ ctx'.syncKbId = ctx'.kb
     /\ (createPc = "creating" /\ createPc' # "creating" /\ ~reloading') =>
          \/ createPc' = "syncing"
          \/ CreateFailed
     /\ CreateApiReturns(FALSE) => (CreateFailed /\ createPc' # "syncing")
     /\ SyncApiReturns(FALSE) => CreateFailed
     /\ (syncState.state # "synced" /\ syncState'.state = "synced") =>
          /\ createPc = "syncing"
          /\ currentKB' = ctx.kb /\ ctx.syncKbId = ctx.kb
          /\ syncState'.kbId = ctx.kb]_vars

\* C18 witness: the sync call is in flight for the KB the create-KB call
\* returned, while the optimistic KB is still the active one
C18_Witness ==
  /\ createPc = "syncing" /\ ~reloading
  /\ ctx.kb = RealKb(ctx.temp.n) /\ ctx.syncKbId = ctx.kb
  /\ currentKB = ctx.temp /\ syncState.state = "pending"

DirectDeleteFails(m) ==
  /\ m \in deleteMutations /\ m.status = "pending"
  /\ [m EXCEPT !.status = "error"] \in deleteMutations'

\* C20: when a direct delete fails at the API, every store the delete wrote
\* is reverted: after the step in which the delete fails, the registry has no
\* entry for the files of the delete and the root status cache of the KB has
\* its entry for each of its root files again.
C20_FailedDirectDeleteReverts ==
  [][\A m \in deleteMutations :
       DirectDeleteFails(m) =>
         \A f \in m.fileIds :
           /\ f \notin DOMAIN registry'
           /\ (Level(f) = 0 /\ m.kbId \in DOMAIN rootCache') =>
                rootCache'[m.kbId][f] # "absent"]_vars

\* every store the reset clears is in its initial state
AllCleared ==
  /\ syncState = [state |-> "idle", kbId |-> NoKb]
  /\ queue = <<>> /\ ~processing
  /\ registry = <<>>
  /\ rootCache = <<>> /\ folderCache = <<>> /\ driveCache = <<>>
  /\ storedKB = NoKb /\ currentKB = NoKb

QueueRekeyed == syncState.state = "pending" /\ syncState'.state = "synced"

\* C22: updateQueueKBId(oldKbId, newKbId) sets kbId to newKbId on every
\* queued request whose kbId is oldKbId and changes nothing else: the queue
\* keeps its length and its order, every other field of every request is as
\* it was, a request with another kbId is untouched, and the processing flag
\* of the queue store is as it was.
C22_RekeyFrame ==
  [][QueueRekeyed =>
       /\ Len(queue') = Len(queue)
       /\ processing' = processing
       /\ \A i \in 1..Len(queue) :
            /\ queue'[i].id = queue[i].id
            /\ queue'[i].fileId = queue[i].fileId
            /\ queue'[i].fileName = queue[i].fileName
            /\ queue'[i].resourcePath = queue[i].resourcePath
            /\ queue'[i].timestamp = queue[i].timestamp
            /\ queue[i].kbId = ctx.temp => queue'[i].kbId = ctx.kb
            /\ queue[i].kbId # ctx.temp => queue'[i] = queue[i]]_vars

\* C22 witness: after the rekey the queue holds a request that was rekeyed to
\* the real id behind a request of an earlier temporary id that was not
C22_Witness ==
  /\ syncState.state = "synced" /\ createPc = "idle" /\ ~reloading
  /\ Len(queue) = 2
  /\ queue[1].kbId.temp /\ queue[1].kbId # TempKb(currentKB.n)
  /\ queue[2].kbId = currentKB /\ ~currentKB.temp

\* C23: markFileAsDeleted is idempotent on registry membership: a call adds
\* the id of its resource to the registered ids and nothing else, a call for
\* an id that is registered already leaves the set of registered ids as it
\* was, with one entry for the id (the one of the last call) and every other
\* entry untouched, and one more call for the id would not change the set.
C23_MarkDeletedIdempotent ==
  [][marked' # marked =>
       LET f == marked'.fileId
       IN /\ DOMAIN registry' = DOMAIN registry \cup {f}
          /\ marked'.wasMarked => DOMAIN registry' = DOMAIN registry
          /\ registry'[f].fileId = f /\ registry'[f].kbId = marked'.kbId
          /\ \A r \in DOMAIN registry \ {f} : registry'[r] = registry[r]
          /\ \A k \in AllKbIds :
               DOMAIN markFileAsDeleted(registry', f, k) = DOMAIN registry']_vars

\* C23 witness: a resource that was registered already has been marked again,
\* for another KB, next to another registered resource
C23_Witness ==
  /\ marked.wasMarked /\ marked.fileId \in DOMAIN registry
  /\ registry[marked.fileId].kbId = marked.kbId
  /\ Cardinality(DOMAIN registry) = 2

\* the handler of onDeleteFiles ran in this step: a collapse timer was
\* started and no create
DeleteRequested == collapseTimers' = collapseTimers + 1 /\ createPc' = createPc

\* C24: a delete requested when there is no active KB is rejected with no
\* state change: the registry, the root and the folder status caches, the
\* delete queue and its processing flag, the sync state and the active KB
\* are as they were, no API delete call is issued and no delete mutation runs.
C24_DeleteWithoutKbRejected ==
  [][(~hasKB /\ DeleteRequested) =>
       /\ registry' = registry
       /\ rootCache' = rootCache /\ folderCache' = folderCache
       /\ queue' = queue /\ processing' = processing
       /\ syncState' = syncState /\ currentKB' = currentKB
       /\ apiDeletes' = apiDeletes /\ deleteMutations' = deleteMutations]_vars

\* C24 witness: deletes were requested before any KB was ever created, and
\* every store is still in its initial state
C24_Witness ==
  /\ ~hasKB /\ now = 0 /\ collapseTimers = MaxTimers /\ ~reloading
  /\ registry = <<>> /\ queue = <<>> /\ rootCache = <<>> /\ folderCache = <<>>
  /\ apiDeletes = NoCalls /\ deleteMutations = {}
  /\ syncState = [state |-> "idle", kbId |-> NoKb]

\* C25: no delete API call is ever issued with a temporary KB id as its
\* target, along any sequence of creates that succeed or fail, deletes
\* requested while the sync is pending, id migrations and queue drains.
C25_NoDeleteCallUnderTempId == \A c \in DOMAIN apiDeletes : ~c.kbId.temp

\* the row of f shows status s
RowShows(f, s) ==
  \/ finalStatus(f) = s
  \/ resolveFileStatus(f, currentKB, RowFolderPath(f)) = s

\* C26: with responses that arrive and a server that ends up reporting every
\* file of the active KB as indexed or error, a file of the KB that is not in
\* the delete registry is eventually displayed with the status the server
\* has settled on, whenever the KB is created relative to the start of the
\* poller and whatever the server lists on the first polls.
C26_DisplayReachesBackend ==
  \A f \in Res :
    (hasKB /\ ~currentKB.temp /\ backend[f] \in {"unlisted", "pending", "indexed", "error"})
      ~> \/ f \in DOMAIN registry
         \/ backend[f] \in {"indexed", "error"} /\ RowShows(f, backend[f])

\* the refetch interval of the root scope is on
RootPolling == hasKB /\ ~currentKB.temp /\ shouldPoll

\* the user ends up leaving the folders as they are
UserRests ==
  \A d \in Dirs : <>[](d \in expandedFolders) \/ <>[](d \notin expandedFolders)

\* C27: polling of every scope, the root and each expanded folder, ends up
\* not rescheduling itself (once the user leaves the folders alone), even
\* with a server that keeps a file pending for ever.
C27_PollingTerminates ==
  UserRests => <>[](folderPolls = {} /\ ~RootPolling)

\* the pollFolderStatus chains of a folder that are scheduled or in flight
ChainsOf(d) == {c \in folderPolls : c.folderId = d}

\* C28: for one polling scope at most one poll is in flight or scheduled at
\* any time, also when a folder whose polling has not settled is collapsed
\* and expanded again.
C28_OnePollPerScope == \A d \in Dirs : Cardinality(ChainsOf(d)) <= 1

\* a file of the folder is cached as pending or pending_delete
FolderUnsettled(d) ==
  /\ d \in DOMAIN driveCache
  /\ \E r \in Res : Type(r) = "file" /\ driveCache[d][r] \in {"pending", "pending_delete"}

\* C29: a fetch error during the polling of a folder that has not settled
\* does not end the polling: the cached statuses are left as they were and
\* the chain is still scheduled after the step.
C29_FetchErrorKeepsPolling ==
  [][\A c \in folderPolls :
       (PollFolderFails(c) /\ FolderUnsettled(c.folderId)) =>
         /\ driveCache' = driveCache
         /\ c \in folderPolls']_vars

\* C30: a fetched set of statuses in which no status differs from the cached
\* listing causes no cache write and no refresh of the tree; the cache is
\* written only when at least one status changed.
C30_UnchangedResultWritesNothing ==
  (merged.wrote \/ merged.refreshed) => merged.changed

\* the files under directory d, at any depth, by their paths
DescendantFiles(d) ==
  {r \in Res : /\ Type(r) = "file"
               /\ Len(Name(r)) > Len(Name(d))
               /\ SubSeq(Name(r), 1, Len(Name(d))) = Name(d)}

\* r resolves to indexed when looked up with its own folder path
ResolvesIndexedInFolder(r) ==
  resolveFileStatus(r, currentKB, getFolderPathFromFileName(Name(r))) = "indexed"

\* r is indexed in the root status cache of the active KB and resolves so
ResolvesIndexedAtRoot(r) ==
  /\ currentKB \in DOMAIN rootCache /\ rootCache[currentKB][r] = "indexed"
  /\ resolveFileStatus(r, currentKB, NoPath) = "indexed"

\* C31: in the state the optimistic phase of a create ends in (the create-KB
\* call goes out), every file that is a descendant of a selected directory
\* resolves to indexed when looked up with its own folder path, and every
\* selected root-level item resolves to indexed through the root status
\* cache.
C31_OptimisticMarksEverything ==
  [][CreateCallIssued =>
       /\ \A d \in ctx'.resourceIds :
            Type(d) = "directory" =>
              \A r \in DescendantFiles(d) : ResolvesIndexedInFolder(r)'
       /\ \A r \in ctx'.resourceIds :
            Level(r) = 0 => ResolvesIndexedAtRoot(r)']_vars

\* toggleFolder(d) runs to its end in this step: in one task when it has no
\* statuses to fetch or its fetch of the contents fails, or with the answer
\* to fetchKBStatusForFolder
ToggleEnds(d) ==
  \/ /\ \E ok \in BOOLEAN : toggleFolder(d, ok)
     /\ togglePc'[d].pc = "idle"
  \/ \E resp \in KbListings(getFolderPath(DriveChildren(d))) : ToggleKbReturns(d, resp)

\* C32: toggleFolder on a collapsed folder always ends with the folder
\* expanded, also when the fetch of its contents fails.
C32_ToggleAlwaysExpands ==
  [][\A d \in Dirs :
       (d \notin expandedFolders /\ ToggleEnds(d)) => d \in expandedFolders']_vars

\* the folders above r, by its path
Ancestors(r) ==
  {d \in Dirs : /\ Len(Name(r)) > Len(Name(d))
                /\ SubSeq(Name(r), 1, Len(Name(d))) = Name(d)}

\* the positions of the flattened tree that show r
RowsOf(r) == {i \in 1..Len(flatFiles) : flatFiles[i].id = r}

\* the flattened tree shows exactly the resources whose ancestors are all
\* expanded, once each, at the level of their depth, and the rows of the
\* descendants of a row come right after it
FlatTreeShape ==
  /\ \A r \in Res :
       /\ Cardinality(RowsOf(r)) <= 1
       /\ RowsOf(r) # {} <=> Ancestors(r) \subseteq expandedFolders
  /\ \A i \in 1..Len(flatFiles) :
       LET p == flatFiles[i].id
           below == {j \in 1..Len(flatFiles) : p \in Ancestors(flatFiles[j].id)}
       IN /\ flatFiles[i].level = Len(Name(p)) - 1
          /\ below = (i + 1)..(i + Cardinality(below))

\* a step that takes folders out of the expanded set and is not the reload
Collapses ==
  /\ expandedFolders' # expandedFolders
  /\ expandedFolders' \subseteq expandedFolders
  /\ ~reloading

PrefetchSettles(t) == \E ok \in BOOLEAN : PrefetchDriveReturns(t, ok)

\* C34: once cancelPrefetch has aborted a prefetch (the pointer or the
\* viewport left the folder, or the folder was expanded), the settling of
\* its request writes no cache and issues no KB status request.
C34_CancelledPrefetchIsSilent ==
  [][\A t \in prefetches :
       (t.aborted /\ PrefetchSettles(t)) =>
          /\ driveCache' = driveCache
          /\ folderCache' = folderCache
          /\ \A u \in prefetches' : u.folderId = t.folderId => u.pc # "kb"]_vars

\* the root notification has fired at most once for each KB
RootToastOnce == \A k \in DOMAIN toasts.root : toasts.root[k] <= 1

\* the folder notification has fired at most once for each folder
FolderToastOnce == \A d \in DOMAIN toasts.folder : toasts.folder[d] <= 1

\* C35: since the page loaded, the root failure notification has fired at
\* most once for each KB and the folder failure notification at most once
\* for each folder, whatever the polls and expansions reported.
C35_ToastAtMostOnce == RootToastOnce /\ FolderToastOnce

\* the resolved status of a row, as useFileSelection asks for it
ResolvedOfRow(r) == resolveFileStatus(r, currentKB, RowFolderPath(r))

\* C36: in KB mode every selected file resolves to indexed; a row that does
\* not resolve to indexed is not added to the selection, and no id that does
\* not resolve to indexed is handed to a delete.
C36_SelectionIsIndexed ==
  /\ [](hasKB => \A r \in selectedFiles : ResolvedOfRow(r) = "indexed")
  /\ [][hasKB =>
          /\ \A r \in rowSelection' \ rowSelection : ResolvedOfRow(r) = "indexed"
          /\ \A r \in DOMAIN registry' \ DOMAIN registry :
               r \in rowSelection /\ ResolvedOfRow(r) = "indexed"]_vars

\* C36 witness: a file deleted from the selection is still ticked in
\* rowSelection, resolves to removed, and is no longer among selectedFiles
C36_Witness ==
  /\ hasKB
  /\ \E r \in rowSelection :
       /\ r \in DOMAIN registry /\ Visible(r)
       /\ ResolvedOfRow(r) # "indexed"
       /\ r \notin selectedFiles

\* the number of API delete calls in the log for resource f from source src
RECURSIVE CallCount(_, _)
CallCount(calls, cs) ==
  IF cs = {} THEN 0
  ELSE LET c == CHOOSE x \in cs : TRUE IN calls[c] + CallCount(calls, cs \ {c})

CallsFor(calls, f, srcs) ==
  CallCount(calls, {c \in DOMAIN calls : c.id[1] = f /\ c.src \in srcs})

\* the requests of a queue for resource f
QueuedFor(q, f) == Len(SelectSeq(q, LAMBDA req : req.fileId = f))

\* C37: with no reset in between, at most one API delete call is issued for
\* a resource id, and a resource in the deleted registry is neither queued
\* nor handed to a direct delete again.
C37_OneDeleteCallPerResource ==
  /\ [](\A f \in Res : CallsFor(apiDeletes, f, {"direct", "queue"}) <= 1)
  /\ [][\A f \in DOMAIN registry :
          /\ QueuedFor(queue', f) <= QueuedFor(queue, f)
          /\ CallsFor(apiDeletes', f, {"direct"}) = CallsFor(apiDeletes, f, {"direct"})]_vars

\* C38: when no create is running, the delete queue holds no request made out
\* to a temporary id, and no queued request is ever executed against a
\* temporary id.
C38_FailedCreateDropsItsRequests ==
  /\ [](createPc = "idle" => \A i \in 1..Len(queue) : ~queue[i].kbId.temp)
  /\ [](\A c \in DOMAIN apiDeletes : c.src = "queue" => ~c.kbId.temp)

\* C39: whenever no callback of the create mutation is part-way through, the
\* sync state is pending exactly when the active KB id is temporary, and a
\* synced sync state is bound to the active KB id, which is then a real id.
C39_SyncStateMatchesActiveKb ==
  createPc # "onMutate" =>
    /\ syncState.state = "pending" <=> (hasKB /\ currentKB.temp)
    /\ syncState.state = "synced" =>
         (hasKB /\ ~currentKB.temp /\ syncState.kbId = currentKB)

\* C39 witness: a create has succeeded and the sync state is synced
C39_Witness ==
  /\ createPc = "idle" /\ syncState.state = "synced"
  /\ hasKB /\ syncState.kbId = currentKB /\ storedKB = currentKB

\* C40: the persisted KB is never a temporary id; it is written only by a
\* create whose calls succeeded, with the id the server assigned; a reset
\* leaves none, and so does a failed create that had no previous KB.
C40_PersistedKbIsReal ==
  /\ [](storedKB # NoKb => ~storedKB.temp)
  /\ [][/\ (storedKB' # storedKB /\ storedKB' # NoKb) =>
             /\ createPc = "syncing" /\ createPc' = "idle"
             /\ storedKB' = ctx.kb /\ ~ctx.kb.temp
             /\ syncState'.state = "synced"
        /\ (~reloading /\ reloading') => storedKB' = NoKb
        /\ (/\ createPc \in {"creating", "syncing"} /\ createPc' = "idle"
            /\ syncState'.state = "idle" /\ ctx.previousKB = NoKb)
             => storedKB' = NoKb]_vars

\* C40 witness: a create has succeeded and the server-assigned id is persisted
C40_Witness ==
  /\ storedKB # NoKb /\ ~storedKB.temp
  /\ storedKB = currentKB /\ createPc = "idle" /\ ~reloading

====
